---- MODULE Spec2Model ----
(***************************************************************************)
(* Model of graphql-llm-visualizer: the schema model builder               *)
(* (schema-analyzer.ts), the resolver classifier (resolver-analyzer.ts),   *)
(* the graph synthesizer (static-analyzer.ts) and the enrichment merge     *)
(* policy.                                                                 *)
(*                                                                         *)
(* Strings.  A JavaScript string is modelled as a sequence of atoms.  An   *)
(* atom is an indivisible piece of text: either a run of word characters   *)
(* (\w) or one punctuation character.  The text a sequence stands for is   *)
(* the concatenation of its atoms, so two adjacent word atoms spell one    *)
(* identifier (<<"find","Many">> is findMany).  Every literal of the       *)
(* program's regular expressions is a sequence of atoms, and the matchers  *)
(* below are the regular expressions read over this alphabet.              *)
(***************************************************************************)
EXTENDS Integers, Sequences, FiniteSets, TLC

\* ------------------------------------------------------------------ bounds

\* Fragments joined into one resolver text.
MaxFrags == 2
\* Wrapper depth (NON_NULL / LIST) of a declared field type.
MaxWrap == 2
\* Fields of a type declaration in the schema builder's inputs.
MaxFields == 1
\* Fields of a type declaration in the graph synthesizer's inputs.
MaxConnFields == 2
\* Resolvers handed to one analyzeConnections call.
MaxResolvers == 1
\* Calls of analyzeConnections on one StaticAnalyzer instance with one input.
MaxCalls == 2

\* The most paths given to one loadResolverFiles call.
MaxPaths == 2

\* The most properties of an object literal.
MaxProps == 2

\* ------------------------------------------------------------ optional values

\* undefined (an absent optional field); also the empty string, which
\* JavaScript treats alike in every test the program makes (x || y, x ? a : b).
None == <<>>

Some(v) == <<v>>

\* ------------------------------------------------------------------ alphabet

WordAtoms ==
  { "prisma", "user", "post", "find", "Many", "Unique", "First", "One", "ById",
    "create", "update", "delete", "count", "connect", "cache", "User", "id",
    "get", "put", "patch", "Repository", "repository", "sql", "fetch", "axios",
    "request", "api", "client", "url", "graphql", "gql", "q", "return", "a",
    "b", "x", "y", "Query", "resolvers", "users", "from",
    "select", "insert", "Resolver",
    \* upper-case forms
    "PRISMA", "USER", "POST", "FIND", "MANY", "UNIQUE", "FIRST", "ONE", "BYID",
    "CREATE", "UPDATE", "DELETE", "COUNT", "CONNECT", "CACHE", "ID",
    "GET", "PUT", "PATCH", "REPOSITORY", "SQL", "FETCH", "AXIOS",
    "REQUEST", "API", "CLIENT", "URL", "GRAPHQL", "GQL", "Q", "RETURN", "A",
    "B", "X", "Y", "QUERY", "RESOLVERS", "USERS", "FROM",
    "SELECT", "INSERT", "RESOLVER" }

SpaceAtoms == { " " }

QuoteAtoms == { "'", "\"" }

\* The atom of the template-literal delimiter (the backquote character).
Backtick == "<backquote>"

IsWord(a) == a \in WordAtoms

\* String.prototype.toUpperCase on one word atom (punctuation is unchanged).
UpperAtom(a) ==
  CASE a = "prisma" -> "PRISMA" [] a = "user" -> "USER" [] a = "post" -> "POST"
    [] a = "find" -> "FIND" [] a = "Many" -> "MANY" [] a = "Unique" -> "UNIQUE"
    [] a = "First" -> "FIRST" [] a = "One" -> "ONE" [] a = "ById" -> "BYID"
    [] a = "create" -> "CREATE" [] a = "update" -> "UPDATE"
    [] a = "delete" -> "DELETE" [] a = "count" -> "COUNT"
    [] a = "connect" -> "CONNECT" [] a = "cache" -> "CACHE" [] a = "User" -> "USER"
    [] a = "id" -> "ID" [] a = "get" -> "GET" [] a = "put" -> "PUT"
    [] a = "patch" -> "PATCH" [] a = "Repository" -> "REPOSITORY"
    [] a = "repository" -> "REPOSITORY" [] a = "sql" -> "SQL"
    [] a = "fetch" -> "FETCH" [] a = "axios" -> "AXIOS"
    [] a = "request" -> "REQUEST" [] a = "api" -> "API" [] a = "client" -> "CLIENT"
    [] a = "url" -> "URL" [] a = "graphql" -> "GRAPHQL" [] a = "gql" -> "GQL"
    [] a = "q" -> "Q" [] a = "return" -> "RETURN" [] a = "a" -> "A"
    [] a = "b" -> "B" [] a = "x" -> "X" [] a = "y" -> "Y" [] a = "Query" -> "QUERY"
    [] a = "resolvers" -> "RESOLVERS" [] a = "users" -> "USERS"
    [] a = "from" -> "FROM" [] a = "select" -> "SELECT" [] a = "insert" -> "INSERT"
    [] a = "Resolver" -> "RESOLVER"
    [] OTHER -> a

toUpperCase(text) == [i \in 1..Len(text) |-> UpperAtom(text[i])]

\* ------------------------------------------------------------ string helpers

\* The atom at position i, or "" past either end of the text.
At(text, i) == IF i \in 1..Len(text) THEN text[i] ELSE ""

\* The literal lit occurs in text starting at position i.
HasAt(text, i, lit) ==
  /\ i >= 1
  /\ i + Len(lit) - 1 <= Len(text)
  /\ \A k \in 1..Len(lit) : text[i + k - 1] = lit[k]

\* String.prototype.includes
includes(text, lit) == \E i \in 1..Len(text) : HasAt(text, i, lit)

\* The last position of the longest run of atoms of class S that starts at i
\* (i - 1 when text[i] is not in S): what a greedy \w+, \s* or [^'"]+ consumes.
RECURSIVE RunEnd(_, _, _)
RunEnd(text, i, S) ==
  IF i <= Len(text) /\ text[i] \in S THEN RunEnd(text, i + 1, S) ELSE i - 1

\* The atoms of text that are not quotes, for the class [^'"].
NonQuoteAtoms(text) == { text[i] : i \in 1..Len(text) } \ QuoteAtoms

Min(S) == CHOOSE m \in S : \A n \in S : m <= n

\* String.prototype.split on a one-atom separator.
RECURSIVE split(_, _)
split(text, sep) ==
  LET I == { i \in 1..Len(text) : text[i] = sep }
  IN IF I = {} THEN << text >>
     ELSE << SubSeq(text, 1, Min(I) - 1) >>
            \o split(SubSeq(text, Min(I) + 1, Len(text)), sep)

\* Array.prototype.pop's return value on a non-empty array.
pop(arr) == arr[Len(arr)]

\* Array.prototype.includes
arrayIncludes(arr, v) == \E i \in 1..Len(arr) : arr[i] = v

\* x || y on strings.
OrElse(x, y) == IF x # None THEN x ELSE y

\* ------------------------------------------- resolver classifier: patterns

\* /prisma\.\w+\.\w+/.test(text)
containsPrismaPattern(text) ==
  \E i \in 1..Len(text) :
    /\ HasAt(text, i, << "prisma", "." >>)
    /\ LET j == RunEnd(text, i + 2, WordAtoms)
       IN /\ j >= i + 2
          /\ At(text, j + 1) = "."
          /\ IsWord(At(text, j + 2))

\* text.match(/prisma\.(\w+)/): group 1 of the leftmost match.
detectPrismaModel(text) ==
  LET I == { i \in 1..Len(text) :
               HasAt(text, i, << "prisma", "." >>) /\ IsWord(At(text, i + 2)) }
  IN IF I = {} THEN None
     ELSE SubSeq(text, Min(I) + 2, RunEnd(text, Min(I) + 2, WordAtoms))

\* detectPrismaOperation with the create test moved before the find tests.
detectPrismaOperationCreateFirst(text) ==
  IF includes(text, << ".", "create" >>) THEN << "create" >>
  ELSE IF includes(text, << ".", "find", "Many" >>) THEN << "find", "Many" >>
  ELSE IF \/ includes(text, << ".", "find", "Unique" >>)
          \/ includes(text, << ".", "find", "First" >>) THEN << "find", "Unique" >>
  ELSE IF \/ includes(text, << ".", "update" >>)
          \/ includes(text, << ".", "update", "Many" >>) THEN << "update" >>
  ELSE IF \/ includes(text, << ".", "delete" >>)
          \/ includes(text, << ".", "delete", "Many" >>) THEN << "delete" >>
  ELSE << "other" >>

detectPrismaOperation(text) ==
  IF includes(text, << ".", "find", "Many" >>) THEN << "find", "Many" >>
  ELSE IF \/ includes(text, << ".", "find", "Unique" >>)
          \/ includes(text, << ".", "find", "First" >>) THEN << "find", "Unique" >>
  ELSE IF includes(text, << ".", "create" >>) THEN << "create" >>
  ELSE IF \/ includes(text, << ".", "update" >>)
          \/ includes(text, << ".", "update", "Many" >>) THEN << "update" >>
  ELSE IF \/ includes(text, << ".", "delete" >>)
          \/ includes(text, << ".", "delete", "Many" >>) THEN << "delete" >>
  ELSE << "other" >>

\* /\w+\.find\(|\w+\.findById\(|\w+\.findOne\(|\w+\.create\(/.test(text)
containsMongoosePattern(text) ==
  \E i \in 1..Len(text) :
    /\ IsWord(text[i])
    /\ At(text, i + 1) = "."
    /\ \/ HasAt(text, i + 2, << "find", "(" >>)
       \/ HasAt(text, i + 2, << "find", "ById", "(" >>)
       \/ HasAt(text, i + 2, << "find", "One", "(" >>)
       \/ HasAt(text, i + 2, << "create", "(" >>)

\* /repository\.\w+\(|getRepository\(/.test(text)
containsTypeORMPattern(text) ==
  \E i \in 1..Len(text) :
    \/ /\ HasAt(text, i, << "repository", "." >>)
       /\ LET j == RunEnd(text, i + 2, WordAtoms)
          IN j >= i + 2 /\ At(text, j + 1) = "("
    \/ HasAt(text, i, << "get", "Repository", "(" >>)

\* The raw SQL test applied to the text as written, /.../.test(text).
containsSQLPatternCaseSensitive(text) ==
  \E i \in 1..Len(text) :
    \/ text[i] \in { "SELECT", "INSERT", "UPDATE", "DELETE" }
    \/ /\ text[i] = "FROM"
       /\ LET j == RunEnd(text, i + 1, SpaceAtoms)
          IN j >= i + 1 /\ IsWord(At(text, j + 1))

\* /SELECT|INSERT|UPDATE|DELETE|FROM\s+\w+/.test(text.toUpperCase())
containsSQLPattern(text) ==
  LET up == toUpperCase(text)
  IN \E i \in 1..Len(up) :
       \/ up[i] \in { "SELECT", "INSERT", "UPDATE", "DELETE" }
       \/ /\ up[i] = "FROM"
          /\ LET j == RunEnd(up, i + 1, SpaceAtoms)
             IN j >= i + 1 /\ IsWord(At(up, j + 1))

\* /fetch\(|axios\.|\.get\(|\.post\(|\.put\(|\.delete\(|request\(/.test(text)
containsRESTApiPattern(text) ==
  \E i \in 1..Len(text) :
    \/ HasAt(text, i, << "fetch", "(" >>)
    \/ HasAt(text, i, << "axios", "." >>)
    \/ HasAt(text, i, << ".", "get", "(" >>)
    \/ HasAt(text, i, << ".", "post", "(" >>)
    \/ HasAt(text, i, << ".", "put", "(" >>)
    \/ HasAt(text, i, << ".", "delete", "(" >>)
    \/ HasAt(text, i, << "request", "(" >>)

detectRESTMethod(text) ==
  IF includes(text, << ".", "get", "(" >>) THEN << "GET" >>
  ELSE IF includes(text, << ".", "post", "(" >>) THEN << "POST" >>
  ELSE IF includes(text, << ".", "put", "(" >>) THEN << "PUT" >>
  ELSE IF includes(text, << ".", "delete", "(" >>) THEN << "DELETE" >>
  ELSE IF includes(text, << ".", "patch", "(" >>) THEN << "PATCH" >>
  ELSE None

\* RESTLiteralAt for an expression that accepts a literal after any call,
\* /\w+\(\s*['"]([^'"]+)['"]/.
RESTLiteralAtAnyCall(text, i) ==
  IF IsWord(At(text, i + 1)) /\ At(text, i + 2) = "("
  THEN LET k == RunEnd(text, i + 3, SpaceAtoms) + 1
           m == RunEnd(text, k + 1, NonQuoteAtoms(text)) + 1
       IN IF /\ At(text, k) \in QuoteAtoms
             /\ m > k + 1
             /\ At(text, m) \in QuoteAtoms
          THEN k ELSE 0
  ELSE 0

\* The position of the opening quote of the string literal matched by
\* /\.(get|post|put|delete|patch)\(\s*['"]([^'"]+)['"]/ at position i, or 0
\* when the expression does not match there.
RESTLiteralAt(text, i) ==
  IF /\ At(text, i) = "."
     /\ At(text, i + 1) \in { "get", "post", "put", "delete", "patch" }
     /\ At(text, i + 2) = "("
  THEN LET k == RunEnd(text, i + 3, SpaceAtoms) + 1
           m == RunEnd(text, k + 1, NonQuoteAtoms(text)) + 1
       IN IF /\ At(text, k) \in QuoteAtoms
             /\ m > k + 1
             /\ At(text, m) \in QuoteAtoms
          THEN k ELSE 0
  ELSE 0

\* text.match(/\.(get|post|put|delete|patch)\(\s*['"]([^'"]+)['"]/): group 2
\* of the leftmost match.
detectRESTEndpoint(text) ==
  LET I == { i \in 1..Len(text) : RESTLiteralAt(text, i) > 0 }
  IN IF I = {} THEN None
     ELSE LET k == RESTLiteralAt(text, Min(I))
          IN SubSeq(text, k + 1, RunEnd(text, k + 1, NonQuoteAtoms(text)))

\* The GraphQL client test: graphql( , or gql, optional white space and a backtick.
containsGraphQLPattern(text) ==
  \E i \in 1..Len(text) :
    \/ HasAt(text, i, << "graphql", "(" >>)
    \/ /\ text[i] = "gql"
       /\ At(text, RunEnd(text, i + 1, SpaceAtoms) + 1) = Backtick

\* The hasLogic test without the member-access alternative.
hasLogicOperatorOnly(text) ==
  \E i \in 1..Len(text) :
    /\ text[i] = "return"
    /\ LET s == RunEnd(text, i + 1, SpaceAtoms)
           w == RunEnd(text, s + 1, WordAtoms)
           o == RunEnd(text, w + 1, SpaceAtoms) + 1
       IN /\ s >= i + 1
          /\ w >= s + 1
          /\ At(text, o) \in { "+", "-", "*", "/", "?" }

\* The hasLogic test: "return", white space, a word, then optional white space
\* and one of the operators + - * / ? or a member access (a dot and a word).
hasLogic(text) ==
  \E i \in 1..Len(text) :
    /\ text[i] = "return"
    /\ LET s == RunEnd(text, i + 1, SpaceAtoms)
           w == RunEnd(text, s + 1, WordAtoms)
           o == RunEnd(text, w + 1, SpaceAtoms) + 1
       IN /\ s >= i + 1
          /\ w >= s + 1
          /\ \/ At(text, o) \in { "+", "-", "*", "/", "?" }
             \/ At(text, o) = "." /\ IsWord(At(text, o + 1))

isLikelyComputed(text) ==
  LET hasNoDataAccess ==
        /\ ~ containsPrismaPattern(text)
        /\ ~ containsMongoosePattern(text)
        /\ ~ containsTypeORMPattern(text)
        /\ ~ containsSQLPattern(text)
        /\ ~ containsRESTApiPattern(text)
        /\ ~ containsGraphQLPattern(text)
  IN hasNoDataAccess /\ hasLogic(text)

\* text.match(/(\w+)\.resolvers\.(\w+)/g): the matches at or after position
\* p, left to right, none overlapping an earlier one.
RECURSIVE resolverRefMatches(_, _)
resolverRefMatches(text, p) ==
  LET I == { i \in p..Len(text) :
               /\ IsWord(text[i])
               /\ LET j == RunEnd(text, i, WordAtoms)
                  IN /\ HasAt(text, j + 1, << ".", "resolvers", "." >>)
                     /\ IsWord(At(text, j + 4)) }
  IN IF I = {} THEN << >>
     ELSE LET i == Min(I)
              j == RunEnd(text, i, WordAtoms)
              k == RunEnd(text, j + 4, WordAtoms)
          IN << SubSeq(text, i, k) >> \o resolverRefMatches(text, k + 1)

detectDependencies(text) ==
  LET matches == resolverRefMatches(text, 1)
      parts(n) == split(matches[n], ".")
  IN [ n \in 1..Len(matches) |-> parts(n)[1] \o << "." >> \o parts(n)[3] ]

\* --------------------------------------- resolver classifier: classification

\* detectSource with the API branches tested before the raw SQL branch.
detectSourceApiBeforeSQL(sourceText) ==
  IF containsPrismaPattern(sourceText) THEN
    [ sourceType |-> << "database" >>,
      databaseInfo |-> Some([ type |-> << "prisma" >>,
                              operation |-> detectPrismaOperation(sourceText),
                              model |-> detectPrismaModel(sourceText) ]),
      apiInfo |-> None ]
  ELSE IF containsMongoosePattern(sourceText) THEN
    [ sourceType |-> << "database" >>,
      databaseInfo |-> Some([ type |-> << "mongoose" >>,
                              operation |-> None, model |-> None ]),
      apiInfo |-> None ]
  ELSE IF containsTypeORMPattern(sourceText) THEN
    [ sourceType |-> << "database" >>,
      databaseInfo |-> Some([ type |-> << "typeorm" >>,
                              operation |-> None, model |-> None ]),
      apiInfo |-> None ]
  ELSE IF containsRESTApiPattern(sourceText) THEN
    [ sourceType |-> << "api" >>,
      databaseInfo |-> None,
      apiInfo |-> Some([ type |-> << "rest" >>,
                         method |-> detectRESTMethod(sourceText),
                         endpoint |-> detectRESTEndpoint(sourceText) ]) ]
  ELSE IF containsGraphQLPattern(sourceText) THEN
    [ sourceType |-> << "api" >>,
      databaseInfo |-> None,
      apiInfo |-> Some([ type |-> << "graphql" >>,
                         method |-> None, endpoint |-> None ]) ]
  ELSE IF containsSQLPattern(sourceText) THEN
    [ sourceType |-> << "database" >>,
      databaseInfo |-> Some([ type |-> << "raw-sql" >>,
                              operation |-> None, model |-> None ]),
      apiInfo |-> None ]
  ELSE IF isLikelyComputed(sourceText) THEN
    [ sourceType |-> << "computed" >>, databaseInfo |-> None, apiInfo |-> None ]
  ELSE
    [ sourceType |-> << "unknown" >>, databaseInfo |-> None, apiInfo |-> None ]

\* The classification chain of analyzeResolverImplementation: the first
\* matching branch decides sourceType, databaseInfo and apiInfo.
detectSource(sourceText) ==
  IF containsPrismaPattern(sourceText) THEN
    [ sourceType |-> << "database" >>,
      databaseInfo |-> Some([ type |-> << "prisma" >>,
                              operation |-> detectPrismaOperation(sourceText),
                              model |-> detectPrismaModel(sourceText) ]),
      apiInfo |-> None ]
  ELSE IF containsMongoosePattern(sourceText) THEN
    [ sourceType |-> << "database" >>,
      databaseInfo |-> Some([ type |-> << "mongoose" >>,
                              operation |-> None, model |-> None ]),
      apiInfo |-> None ]
  ELSE IF containsTypeORMPattern(sourceText) THEN
    [ sourceType |-> << "database" >>,
      databaseInfo |-> Some([ type |-> << "typeorm" >>,
                              operation |-> None, model |-> None ]),
      apiInfo |-> None ]
  ELSE IF containsSQLPattern(sourceText) THEN
    [ sourceType |-> << "database" >>,
      databaseInfo |-> Some([ type |-> << "raw-sql" >>,
                              operation |-> None, model |-> None ]),
      apiInfo |-> None ]
  ELSE IF containsRESTApiPattern(sourceText) THEN
    [ sourceType |-> << "api" >>,
      databaseInfo |-> None,
      apiInfo |-> Some([ type |-> << "rest" >>,
                         method |-> detectRESTMethod(sourceText),
                         endpoint |-> detectRESTEndpoint(sourceText) ]) ]
  ELSE IF containsGraphQLPattern(sourceText) THEN
    [ sourceType |-> << "api" >>,
      databaseInfo |-> None,
      apiInfo |-> Some([ type |-> << "graphql" >>,
                         method |-> None, endpoint |-> None ]) ]
  ELSE IF isLikelyComputed(sourceText) THEN
    [ sourceType |-> << "computed" >>, databaseInfo |-> None, apiInfo |-> None ]
  ELSE
    [ sourceType |-> << "unknown" >>, databaseInfo |-> None, apiInfo |-> None ]

\* The ResolverInfo built for one candidate of the file scan.
analyzeResolverImplementation(sourceText, resolverPath) ==
  LET source == detectSource(sourceText)
  IN [ path |-> resolverPath,
       typeName |-> OrElse(pop(split(resolverPath, ".")), << "unknown" >>),
       fieldName |-> OrElse(pop(split(resolverPath, ".")), << "unknown" >>),
       code |-> sourceText,
       sourceType |-> source.sourceType,
       databaseInfo |-> source.databaseInfo,
       apiInfo |-> source.apiInfo,
       dependencies |-> Some(detectDependencies(sourceText)) ]

\* analyzeResolverFunction without the assignment of sourceType.
analyzeResolverFunctionKeepsType(info) ==
  IF containsPrismaPattern(info.code) THEN
    [ info EXCEPT
        !.databaseInfo = Some([ type |-> << "prisma" >>,
                                model |-> detectPrismaModel(info.code),
                                operation |-> detectPrismaOperation(info.code) ]) ]
  ELSE info

\* The schema-driven entry point's detection: the ORM branch only.
analyzeResolverFunction(info) ==
  IF containsPrismaPattern(info.code) THEN
    [ info EXCEPT
        !.sourceType = << "database" >>,
        !.databaseInfo = Some([ type |-> << "prisma" >>,
                                model |-> detectPrismaModel(info.code),
                                operation |-> detectPrismaOperation(info.code) ]) ]
  ELSE info

\* The ResolverInfo analyzeResolversFromSchema builds for one field that
\* carries a resolver function whose text is code.
schemaResolverInfo(typeName, fieldName, code) ==
  analyzeResolverFunction(
    [ typeName |-> typeName,
      fieldName |-> fieldName,
      path |-> typeName \o << "." >> \o fieldName,
      code |-> code,
      sourceType |-> << "unknown" >>,
      databaseInfo |-> None,
      apiInfo |-> None,
      dependencies |-> None ])

\* ------------------------------------------------ resolver texts (inputs)

\* Pieces of resolver source text.
FragLib ==
  { << "prisma", ".", "user", ".", "find", "Many", "(", ")" >>,
    << "prisma", ".", "post", ".", "delete", "Many", "(", ")" >>,
    << "prisma", ".", "user", ".", "count", "(", ")" >>,
    << "prisma", ".", "connect", "(", ")" >>,
    << "cache", ".", "find", "Many", "(", ")" >>,
    << "User", ".", "find", "ById", "(", "id", ")" >>,
    << "get", "Repository", "(", "User", ")" >>,
    << "sql", "(", "'", "SELECT", "'", ")" >>,
    << "fetch", "(", "'", "/", "y", "'", ")" >>,
    << "axios", ".", "get", "(", " ", "'", "/", "y", "'", ")" >>,
    << "api", ".", "delete", "(", "'", "/", "y", "'", ")" >>,
    << "client", ".", "post", "(", "url", ")" >>,
    << "gql", Backtick, "q", Backtick >>,
    << "return", " ", "a", " ", "+", " ", "b" >>,
    << "return", " ", "x" >>,
    << "Query", ".", "resolvers", ".", "users" >>,
    << "prisma", ".", "user", ".", "create", "Many", "(", ")" >>,
    << "prisma", ".", "user", ".", "find", "First", "(", ")" >>,
    << "axios", ".", "patch", "(", "'", "/", "y", "'", ")" >>,
    << "request", "(", "url", ")" >>,
    << "return", " ", "x", ".", "y" >>,
    << "from", " ", "users" >>,
    << "return", " ", "a", " ", "%", " ", "b" >>,
    << "return", " ", "(", "a", " ", "+", " ", "b", ")" >> }

\* The texts made of at most n fragments, joined by ";".
RECURSIVE TextsOf(_)
TextsOf(n) ==
  IF n = 0 THEN { << >> }
  ELSE LET shorter == TextsOf(n - 1)
       IN shorter \cup FragLib
            \cup { t \o << ";" >> \o f : t \in shorter \ { << >> }, f \in FragLib }

Texts == TextsOf(MaxFrags) \ { << >> }

\* Resolver paths of the file scan: a resolver-map entry and a standalone
\* function bound to a variable.
ScanPaths == { << "Query", ".", "users" >>, << "user", "Resolver" >> }

\* The (type, field) pairs of the schema-driven entry point's inputs.
SchemaFieldRefs == { << << "Query" >>, << "users" >> >>, << << "User" >>, << "post" >> >> }

\* ------------------------------------------------------------------- state

VARIABLES
  \* resolver classifier: the candidate's text and path, the entry point that
  \* classified it ("none" before), and the ResolverInfo it produced
  sourceText, resolverPath, entry, resolverInfo,
  \* schema model builder: SchemaAnalyzer.schema (None is null), the value
  \* analyze() returned last, and the error thrown by the last operation
  schema, schemaNodes, thrown,
  \* the operation of the SchemaAnalyzer called last ("none" before any), the
  \* error the last loadSchema call caught (None when it caught none), whether
  \* a loadSchema call has succeeded, and the value findTypeDependencies()
  \* returned last
  lastCall, parseError, loaded, typeDependencies,
  \* resolver file scan: how reading or walking each source file goes, the
  \* ResolverAnalyzer's resolverFiles and resolverAnalysisResults, the value
  \* analyzeResolvers() returned last, and the files whose error it logged
  faults, resolverFiles, resolverAnalysisResults, scanReturned, errorLog,
  \* the array objects analyzeResolvers has created (the first is the one the
  \* field starts with), the one resolverAnalysisResults refers to, for each
  \* analyzeResolvers call the file list it ran on, the array it returned and
  \* that array's contents at the return, and the last loadResolverFiles argument
  arrays, resultsRef, scanCalls, lastPaths,
  \* analysis run: the step runAnalysis has reached, the call that made it
  \* fail, and the directories readdirSync cannot read
  runPc, runError, unreadableDirs,
  \* resolver-map detection: the object literal the walk is at and the
  \* ResolverInfos analyzeObjectLiteral pushed for it
  objectLiteral, literalCandidates,
  \* visualizer: the options of the last generateD3Visualization call and
  \* the nodes and the edges it prepared
  visOptions, visNodes, visEdges,
  \* graph synthesizer: the arguments under study, the connections each call
  \* on them returned, and the connections the last call of the instance built
  argNodes, argResolvers, returned, lastConnections,
  \* enrichment merge: the static resolvers, the external payload, the result
  staticResolvers, payload, merged

classifierVars == << sourceText, resolverPath, entry, resolverInfo >>
schemaVars == << schema, schemaNodes, thrown, lastCall, parseError, loaded, typeDependencies >>
synthesizerVars == << argNodes, argResolvers, returned, lastConnections >>
mergeVars == << staticResolvers, payload, merged >>
scanVars ==
  << faults, resolverFiles, resolverAnalysisResults, scanReturned, errorLog,
     arrays, resultsRef, scanCalls, lastPaths >>
runVars == << runPc, runError, unreadableDirs >>
literalVars == << objectLiteral, literalCandidates >>
visualizerVars == << visOptions, visNodes, visEdges >>
vars ==
  << classifierVars, schemaVars, synthesizerVars, mergeVars, scanVars, runVars,
     literalVars, visualizerVars >>

ClassifierIdle ==
  sourceText = None /\ resolverPath = None /\ entry = "none" /\ resolverInfo = None
SchemaIdle ==
  /\ schema = None /\ schemaNodes = None /\ thrown = None
  /\ lastCall = "none" /\ parseError = None /\ loaded = FALSE /\ typeDependencies = None
SynthesizerIdle ==
  argNodes = None /\ argResolvers = None /\ returned = << >> /\ lastConnections = None
MergeIdle == staticResolvers = None /\ payload = None /\ merged = None
ScanIdle ==
  /\ faults = None /\ resolverFiles = << >> /\ resolverAnalysisResults = << >>
  /\ scanReturned = None /\ errorLog = << >>
  /\ arrays = << >> /\ resultsRef = 0 /\ scanCalls = << >> /\ lastPaths = None
RunIdle == runPc = "idle" /\ runError = None /\ unreadableDirs = {}
LiteralIdle == objectLiteral = None /\ literalCandidates = None
VisualizerIdle == visOptions = None /\ visNodes = None /\ visEdges = None

\* ------------------------------------------- resolver classifier: behaviour

InitClassify ==
  /\ sourceText \in Texts
  /\ resolverPath \in ScanPaths
  /\ entry = "none"
  /\ resolverInfo = None
  /\ SchemaIdle /\ SynthesizerIdle /\ MergeIdle /\ ScanIdle
  /\ RunIdle /\ LiteralIdle /\ VisualizerIdle

\* The file scan classifies the candidate (analyzeObjectLiteral and
\* analyzeFunction call analyzeResolverImplementation and push the result).
AnalyzeCandidate ==
  /\ entry = "none"
  /\ resolverInfo' = Some(analyzeResolverImplementation(sourceText, resolverPath))
  /\ entry' = "scan"
  /\ UNCHANGED << sourceText, resolverPath, schemaVars, synthesizerVars, mergeVars,
                  scanVars,
                  runVars, literalVars, visualizerVars >>

\* analyzeResolversFromSchema meets a field whose resolver has this text.
AnalyzeSchemaField ==
  /\ entry = "none"
  /\ \E tf \in SchemaFieldRefs :
       resolverInfo' = Some(schemaResolverInfo(tf[1], tf[2], sourceText))
  /\ entry' = "schema"
  /\ UNCHANGED << sourceText, resolverPath, schemaVars, synthesizerVars, mergeVars,
                  scanVars,
                  runVars, literalVars, visualizerVars >>

NextClassify == AnalyzeCandidate \/ AnalyzeSchemaField

SpecClassify == InitClassify /\ [][NextClassify]_vars

\* ---------------------------------------------- resolver classifier: claims

\* A database signature of the classifier occurs in the text.
DatabaseSignature(text) ==
  \/ containsPrismaPattern(text)
  \/ containsMongoosePattern(text)
  \/ containsTypeORMPattern(text)
  \/ containsSQLPattern(text)

\* An API signature of the classifier occurs in the text.
ApiSignature(text) == containsRESTApiPattern(text) \/ containsGraphQLPattern(text)

\* C1: a text that matches a database signature and an API signature is
\* classified database by the file scan, with databaseInfo set and apiInfo
\* absent.
C1_DatabasePrecedesApi ==
  entry = "scan" =>
    LET r == resolverInfo[1]
    IN (DatabaseSignature(sourceText) /\ ApiSignature(sourceText)) =>
         /\ r.sourceType = << "database" >>
         /\ r.databaseInfo # None
         /\ r.apiInfo = None

\* A text with a raw SQL keyword and an HTTP client call, and no other
\* database signature, has been classified database.
C1_Witness ==
  /\ entry = "scan"
  /\ containsSQLPattern(sourceText)
  /\ ~ containsPrismaPattern(sourceText)
  /\ ~ containsMongoosePattern(sourceText)
  /\ ~ containsTypeORMPattern(sourceText)
  /\ includes(sourceText, << "fetch", "(" >>)
  /\ resolverInfo[1].sourceType = << "database" >>
  /\ resolverInfo[1].databaseInfo[1].type = << "raw-sql" >>

\* C2: in every ResolverInfo of either entry point databaseInfo and apiInfo
\* are never both present, databaseInfo is present only with sourceType
\* database, apiInfo only with sourceType api, and neither with unknown or
\* computed.
C2_DetailsExclusive ==
  resolverInfo # None =>
    LET r == resolverInfo[1]
    IN /\ ~ (r.databaseInfo # None /\ r.apiInfo # None)
       /\ r.databaseInfo # None => r.sourceType = << "database" >>
       /\ r.apiInfo # None => r.sourceType = << "api" >>
       /\ r.sourceType \in { << "unknown" >>, << "computed" >> } =>
            r.databaseInfo = None /\ r.apiInfo = None

\* The schema-driven entry point has classified a text with an ORM chain and
\* an API signature as database.
C2_Witness ==
  /\ entry = "schema"
  /\ ApiSignature(sourceText)
  /\ resolverInfo[1].sourceType = << "database" >>
  /\ resolverInfo[1].databaseInfo # None
  /\ resolverInfo[1].apiInfo = None

\* The position of the leftmost ORM chain prisma.<model>.<operation> of the
\* text (0 when there is none), its model and its operation name.
ChainStart(text) ==
  LET I == { i \in 1..Len(text) :
               /\ HasAt(text, i, << "prisma", "." >>)
               /\ LET j == RunEnd(text, i + 2, WordAtoms)
                  IN j >= i + 2 /\ At(text, j + 1) = "." /\ IsWord(At(text, j + 2)) }
  IN IF I = {} THEN 0 ELSE Min(I)

ChainModel(text) ==
  SubSeq(text, ChainStart(text) + 2, RunEnd(text, ChainStart(text) + 2, WordAtoms))

ChainOperation(text) ==
  LET o == RunEnd(text, ChainStart(text) + 2, WordAtoms) + 2
  IN SubSeq(text, o, RunEnd(text, o, WordAtoms))

\* The operation a called operation name maps to, name by name.
MappedExactly(op) ==
  IF op = << "find", "Many" >> THEN << "find", "Many" >>
  ELSE IF op \in { << "find", "Unique" >>, << "find", "First" >> }
    THEN << "find", "Unique" >>
  ELSE IF op = << "create" >> THEN << "create" >>
  ELSE IF op \in { << "update" >>, << "update", "Many" >> } THEN << "update" >>
  ELSE IF op \in { << "delete" >>, << "delete", "Many" >> } THEN << "delete" >>
  ELSE << "other" >>

\* The operation a called operation name maps to by its beginning.
MappedByPrefix(op) ==
  IF HasAt(op, 1, << "find", "Many" >>) THEN << "find", "Many" >>
  ELSE IF HasAt(op, 1, << "find", "Unique" >>) \/ HasAt(op, 1, << "find", "First" >>)
    THEN << "find", "Unique" >>
  ELSE IF HasAt(op, 1, << "create" >>) THEN << "create" >>
  ELSE IF HasAt(op, 1, << "update" >>) THEN << "update" >>
  ELSE IF HasAt(op, 1, << "delete" >>) THEN << "delete" >>
  ELSE << "other" >>

\* The number of "." atoms of the text.
Dots(text) == Cardinality({ i \in 1..Len(text) : text[i] = "." })

MethodCallLiteral(text, i, lit) ==
  /\ At(text, i) = "."
  /\ At(text, i + 1) \in { "get", "post", "put", "delete", "patch" }
  /\ At(text, i + 2) = "("
  /\ \E k \in (i + 3)..Len(text) :
       /\ \A n \in (i + 3)..(k - 1) : text[n] \in SpaceAtoms
       /\ text[k] \in QuoteAtoms
       /\ HasAt(text, k + 1, lit)
       /\ At(text, k + 1 + Len(lit)) \in QuoteAtoms
       /\ \A n \in 1..Len(lit) : lit[n] \notin QuoteAtoms

\* A method call form .get( / .post( / .put( / .delete( / .patch( occurs.
MethodCallForm(text) ==
  \E m \in { "get", "post", "put", "delete", "patch" } :
    includes(text, << ".", m, "(" >>)

\* C9: for every text classified as a REST api, method comes only from a
\* method call form present in the text and endpoint only from a string
\* literal that directly follows such a call; a text with no database
\* signature whose only HTTP call form is fetch( is classified api / rest
\* with method and endpoint undefined.
C9_RestDetail ==
  entry = "scan" =>
    LET r == resolverInfo[1]
        t == sourceText
    IN /\ (r.apiInfo # None /\ r.apiInfo[1].type = << "rest" >>) =>
            LET api == r.apiInfo[1]
            IN /\ \/ api.method = None /\ ~ MethodCallForm(t)
                  \/ api.method = << "GET" >> /\ includes(t, << ".", "get", "(" >>)
                  \/ api.method = << "POST" >> /\ includes(t, << ".", "post", "(" >>)
                  \/ api.method = << "PUT" >> /\ includes(t, << ".", "put", "(" >>)
                  \/ api.method = << "DELETE" >> /\ includes(t, << ".", "delete", "(" >>)
                  \/ api.method = << "PATCH" >> /\ includes(t, << ".", "patch", "(" >>)
               /\ api.endpoint # None =>
                    \E i \in 1..Len(t) : MethodCallLiteral(t, i, api.endpoint)
       /\ ( /\ includes(t, << "fetch", "(" >>)
            /\ ~ MethodCallForm(t)
            /\ ~ DatabaseSignature(t) ) =>
            /\ r.sourceType = << "api" >>
            /\ r.apiInfo # None
            /\ r.apiInfo[1].type = << "rest" >>
            /\ r.apiInfo[1].method = None
            /\ r.apiInfo[1].endpoint = None

\* The text fetch('/y') alone has been classified api / rest with neither
\* method nor endpoint.
C9_Witness ==
  /\ entry = "scan"
  /\ sourceText = << "fetch", "(", "'", "/", "y", "'", ")" >>
  /\ resolverInfo[1].sourceType = << "api" >>
  /\ resolverInfo[1].apiInfo[1].method = None
  /\ resolverInfo[1].apiInfo[1].endpoint = None

\* C18: the schema-driven entry point gives a resolver text the sourceType
\* and the detail the file scan gives the same text: database rules, then
\* API rules, then computed, then unknown.
C18_SameClassification ==
  (entry = "schema" /\ resolverInfo # None) =>
    LET scanned == analyzeResolverImplementation(sourceText, resolverPath)
    IN /\ resolverInfo[1].sourceType = scanned.sourceType
       /\ resolverInfo[1].databaseInfo = scanned.databaseInfo
       /\ resolverInfo[1].apiInfo = scanned.apiInfo

\* The operators of an arithmetic or conditional expression.
OperatorAtoms == { "+", "-", "*", "/", "?", "%" }

\* The text holds a return statement whose expression has an operator or a
\* member access.
ReturnWithOperator(text) ==
  \E i \in 1..Len(text) :
    /\ text[i] = "return"
    /\ \E o \in (i + 1)..Len(text) :
         /\ \A k \in (i + 1)..o : text[k] # ";"
         /\ \/ text[o] \in OperatorAtoms
            \/ /\ text[o] = "."
               /\ IsWord(At(text, o + 1))
               /\ IsWord(text[o - 1]) \/ text[o - 1] = ")"

\* The text holds "return", white space and an identifier that is followed,
\* after optional white space, by one of + - * / ? or by a dot and a name.
ReturnOperandThenOperator(text) ==
  \E i \in 1..Len(text) :
    /\ text[i] = "return"
    /\ \E s \in (i + 1)..Len(text) :
         /\ \A k \in (i + 1)..s : text[k] \in SpaceAtoms
         /\ \E w \in (s + 1)..Len(text) :
              /\ \A k \in (s + 1)..w : IsWord(text[k])
              /\ \E o \in (w + 1)..Len(text) :
                   /\ \A k \in (w + 1)..(o - 1) : text[k] \in SpaceAtoms
                   /\ \/ text[o] \in { "+", "-", "*", "/", "?" }
                      \/ text[o] = "." /\ IsWord(At(text, o + 1))

C25_DependenciesDistinct ==
  entry = "scan" =>
    LET deps == resolverInfo[1].dependencies[1]
    IN \A m, n \in 1..Len(deps) : deps[m] = deps[n] => m = n

\* C29: no ResolverInfo of the file scan with sourceType api has the method
\* DELETE, and a text with a .delete( call is classified database.
C29_NoDeleteMethod ==
  entry = "scan" =>
    /\ resolverInfo[1].sourceType = << "api" >> =>
         resolverInfo[1].apiInfo[1].method # << "DELETE" >>
    /\ includes(sourceText, << ".", "delete", "(" >>) =>
         /\ resolverInfo[1].sourceType = << "database" >>
         /\ resolverInfo[1].apiInfo = None

\* A text whose only signature is an HTTP client's .delete( call has been
\* classified database by the raw SQL rule.
C29_Witness ==
  /\ entry = "scan"
  /\ sourceText = << "api", ".", "delete", "(", "'", "/", "y", "'", ")" >>
  /\ resolverInfo[1].sourceType = << "database" >>
  /\ resolverInfo[1].databaseInfo[1].type = << "raw-sql" >>
  /\ resolverInfo[1].apiInfo = None

\* The concatenation of a sequence of sequences.
RECURSIVE flatten(_)
flatten(lists) ==
  IF lists = << >> THEN << >> ELSE Head(lists) \o flatten(Tail(lists))

\* ------------------------------------------------------ resolver file scan

\* The file tree the scan runs on: the directory src holds a.ts, notes.md
\* and the directory sub, which holds b.js; c.ts lies beside src; gone.ts
\* does not exist.
SrcDir == << "src" >>

SubDir == << "src", "/", "sub" >>

FileA == << "src", "/", "a", ".", "ts" >>

FileB == << "src", "/", "sub", "/", "b", ".", "js" >>

FileC == << "c", ".", "ts" >>

NotesFile == << "src", "/", "notes", ".", "md" >>

GoneFile == << "gone", ".", "ts" >>

SourceFiles == { FileA, FileB, FileC }

\* fs.existsSync, stat.isDirectory, stat.isFile, fs.readdirSync, path.join
existsSync(p) == p \in SourceFiles \cup { SrcDir, SubDir, NotesFile }

isDirectory(p) == p \in { SrcDir, SubDir }

isFile(p) == p \in SourceFiles \cup { NotesFile }

readdirSync(dirPath) ==
  IF dirPath = SrcDir THEN << << "a", ".", "ts" >>, << "notes", ".", "md" >>, << "sub" >> >>
  ELSE IF dirPath = SubDir THEN << << "b", ".", "js" >> >>
  ELSE << >>

join(dirPath, file) == dirPath \o << "/" >> \o file

\* String.prototype.endsWith
endsWith(text, lit) ==
  Len(text) >= Len(lit) /\ SubSeq(text, Len(text) - Len(lit) + 1, Len(text)) = lit

isSourceName(name) == endsWith(name, << ".", "ts" >>) \/ endsWith(name, << ".", "js" >>)

\* addFilesFromDirectory: resolverFiles after the entries of dirPath from
\* the given one on have been added.
RECURSIVE addFilesFromDirectory(_, _, _)
addFilesFromDirectory(dirPath, entries, files) ==
  IF entries = << >> THEN files
  ELSE LET filePath == join(dirPath, Head(entries))
           added ==
             IF isDirectory(filePath)
             THEN addFilesFromDirectory(filePath, readdirSync(filePath), files)
             ELSE IF isSourceName(Head(entries)) THEN Append(files, filePath)
             ELSE files
       IN addFilesFromDirectory(dirPath, Tail(entries), added)

\* loadResolverFiles: resolverFiles after the loop over resolverPaths.
RECURSIVE loadResolverFiles(_, _)
loadResolverFiles(resolverPaths, files) ==
  IF resolverPaths = << >> THEN files
  ELSE LET p == Head(resolverPaths)
           added ==
             IF ~ existsSync(p) THEN files
             ELSE IF isDirectory(p) THEN addFilesFromDirectory(p, readdirSync(p), files)
             ELSE IF isFile(p) /\ isSourceName(p) THEN Append(files, p)
             ELSE files
       IN loadResolverFiles(Tail(resolverPaths), added)

\* The resolver candidates the walk of a file meets, in the order it meets
\* them: a.ts and b.js both define Query.users.
FileCandidates(file) ==
  IF file = FileA THEN
    << [ resolverPath |-> << "Query", ".", "users" >>,
         text |-> << "prisma", ".", "user", ".", "find", "Many", "(", ")" >> ],
       [ resolverPath |-> << "Query", ".", "posts" >>,
         text |-> << "fetch", "(", "'", "/", "y", "'", ")" >> ] >>
  ELSE IF file = FileB THEN
    << [ resolverPath |-> << "Query", ".", "users" >>,
         text |-> << "sql", "(", "'", "SELECT", "'", ")" >> ],
       [ resolverPath |-> << "user", "Resolver" >>,
         text |-> << "return", " ", "x" >> ] >>
  ELSE IF file = FileC THEN
    << [ resolverPath |-> << "Mutation", ".", "addUser" >>,
         text |-> << "prisma", ".", "user", ".", "create", "(", ")" >> ] >>
  ELSE << >>

\* How the try block of analyzeResolvers goes for a file: to its end, or
\* readFileSync throws, or the walk throws after it has pushed the
\* ResolverInfos of some of the candidates.
FileFaults(file) ==
  { [ kind |-> "none", pushed |-> Len(FileCandidates(file)) ],
    [ kind |-> "read", pushed |-> 0 ] }
    \cup { [ kind |-> "walk", pushed |-> k ] : k \in 0..Len(FileCandidates(file)) }

\* The ResolverInfos the try block pushes for a file before it ends or throws.
analyzeFileContent(file, fault) ==
  [ n \in 1..fault.pushed |->
      analyzeResolverImplementation(FileCandidates(file)[n].text,
                                    FileCandidates(file)[n].resolverPath) ]

\* analyzeResolvers: resolverAnalysisResults after the loop over the files.
RECURSIVE analyzeResolvers(_, _, _)
analyzeResolvers(files, fault, results) ==
  IF files = << >> THEN results
  ELSE analyzeResolvers(Tail(files), fault,
                        results \o analyzeFileContent(Head(files), fault[Head(files)]))

\* The files whose error analyzeResolvers logs.
loggedErrors(files, fault) ==
  SelectSeq(files, LAMBDA f : fault[f].kind # "none")

\* --------------------------------------------- resolver file scan (inputs)

ScanArguments == { SrcDir, SubDir, FileA, FileC, NotesFile, GoneFile }

\* Lists of at most n resolver paths.
RECURSIVE PathLists(_)
PathLists(n) ==
  IF n = 0 THEN { << >> }
  ELSE LET shorter == PathLists(n - 1)
       IN shorter \cup { Append(l, p) : l \in shorter, p \in ScanArguments }

\* The path lists of the loads that follow an analyzeResolvers call.
ReloadLists == { << FileC >> }

\* ------------------------------------------- resolver file scan: behaviour

\* The scan's variables after construction, for a given course of the files.
ScanStart(fileFaults) ==
  /\ faults \in fileFaults
  /\ resolverFiles = << >>
  /\ resolverAnalysisResults = << >>
  /\ scanReturned = None
  /\ errorLog = << >>
  /\ arrays = << << >> >>
  /\ resultsRef = 1
  /\ scanCalls = << >>
  /\ lastPaths = None

InitScan ==
  /\ ScanStart({ g \in [ SourceFiles -> UNION { FileFaults(f) : f \in SourceFiles } ] :
                   \A f \in SourceFiles : g[f] \in FileFaults(f) })
  /\ ClassifierIdle /\ SchemaIdle /\ SynthesizerIdle /\ MergeIdle
  /\ RunIdle /\ LiteralIdle /\ VisualizerIdle

\* loadResolverFiles(resolverPaths), before the first analyzeResolvers call.
LoadResolverFiles ==
  /\ scanCalls = << >>
  /\ \E resolverPaths \in PathLists(MaxPaths) :
       /\ resolverFiles' = loadResolverFiles(resolverPaths, << >>)
       /\ lastPaths' = Some(resolverPaths)
  /\ UNCHANGED << faults, resolverAnalysisResults, scanReturned, errorLog, arrays,
                  resultsRef, scanCalls, classifierVars, schemaVars, synthesizerVars,
                  mergeVars, runVars, literalVars, visualizerVars >>

\* loadResolverFiles(resolverPaths) between two analyzeResolvers calls.
ReloadResolverFiles ==
  /\ scanCalls # << >>
  /\ Len(scanCalls) < MaxCalls
  /\ \E resolverPaths \in ReloadLists :
       /\ resolverFiles' = loadResolverFiles(resolverPaths, << >>)
       /\ lastPaths' = Some(resolverPaths)
  /\ UNCHANGED << faults, resolverAnalysisResults, scanReturned, errorLog, arrays,
                  resultsRef, scanCalls, classifierVars, schemaVars, synthesizerVars,
                  mergeVars, runVars, literalVars, visualizerVars >>

\* What analyzeResolvers() does to the analyzer, given the array it pushes
\* to: a new array object that the field then refers to and the call returns.
AnalyzeResolversFrom(start) ==
  \E results \in { analyzeResolvers(resolverFiles, faults, start) } :
     /\ arrays' = Append(arrays, results)
     /\ resultsRef' = Len(arrays) + 1
     /\ resolverAnalysisResults' = results
     /\ scanReturned' = Some(results)
     /\ scanCalls' = Append(scanCalls, [ files |-> resolverFiles,
                                         ref |-> Len(arrays) + 1,
                                         snapshot |-> results ])
     /\ errorLog' = loggedErrors(resolverFiles, faults)

\* analyzeResolvers(), were the results pushed after those of the last call.
AnalyzeResolversAccumulating ==
  /\ Len(scanCalls) < MaxCalls
  /\ AnalyzeResolversFrom(resolverAnalysisResults)
  /\ UNCHANGED << faults, resolverFiles, lastPaths, classifierVars, schemaVars,
                  synthesizerVars, mergeVars, runVars, literalVars, visualizerVars >>

\* analyzeResolvers()
AnalyzeResolvers ==
  /\ Len(scanCalls) < MaxCalls
  /\ AnalyzeResolversFrom(<< >>)
  /\ UNCHANGED << faults, resolverFiles, lastPaths, classifierVars, schemaVars,
                  synthesizerVars, mergeVars, runVars, literalVars, visualizerVars >>

NextScan == LoadResolverFiles \/ ReloadResolverFiles \/ AnalyzeResolvers

SpecScan == InitScan /\ [][NextScan]_vars

\* ---------------------------------------------- resolver file scan: claims

\* The ResolverInfos of every candidate of a file.
AllResolverInfos(file) ==
  analyzeFileContent(file, [ kind |-> "none", pushed |-> Len(FileCandidates(file)) ])

\* C16: when reading or analysing a loaded file fails, analyzeResolvers
\* still returns, with the ResolverInfos of every other loaded file and none
\* of the failing file: the returned collection is, file by file in load
\* order, every ResolverInfo of a file that did not fail.
C16_FailureIsolated ==
  scanReturned # None =>
    scanReturned[1] =
      flatten([ n \in 1..Len(resolverFiles) |->
                  IF faults[resolverFiles[n]].kind = "none"
                  THEN AllResolverInfos(resolverFiles[n])
                  ELSE << >> ])

\* C17: no two ResolverInfos of the collection one analyzeResolvers call
\* returns have the same path.
C17_PathUnique ==
  scanReturned # None =>
    \A i, j \in 1..Len(scanReturned[1]) :
      i # j => scanReturned[1][i].path # scanReturned[1][j].path

\* C28: results do not accumulate across calls. The loaded file list is
\* that of the last loadResolverFiles argument alone; every array an
\* analyzeResolvers call returned still has the contents it had at the
\* return; it holds no more ResolverInfos than the files of that call
\* declare; and two calls made on the same file list returned two arrays
\* with equal contents.
C28_NoAccumulation ==
  /\ lastPaths # None => resolverFiles = loadResolverFiles(lastPaths[1], << >>)
  /\ \A i \in 1..Len(scanCalls) :
       /\ arrays[scanCalls[i].ref] = scanCalls[i].snapshot
       /\ Len(scanCalls[i].snapshot)
            =< Len(flatten([ n \in 1..Len(scanCalls[i].files) |->
                               FileCandidates(scanCalls[i].files[n]) ]))
       /\ \A j \in 1..Len(scanCalls) :
            /\ i # j => scanCalls[i].ref # scanCalls[j].ref
            /\ scanCalls[i].files = scanCalls[j].files
                 => scanCalls[i].snapshot = scanCalls[j].snapshot

\* Two analyzeResolvers calls on the same list of several files returned ResolverInfos,
\* in two different arrays.
C28_Witness ==
  /\ Len(scanCalls) = 2
  /\ scanCalls[1].files = scanCalls[2].files
  /\ Len(scanCalls[1].files) > 1
  /\ scanCalls[1].snapshot # << >>
  /\ scanCalls[1].ref # scanCalls[2].ref

\* ------------------------------------------------ schema model builder

\* An introspection type reference: the wrappers met from the outside in,
\* then the named type.  kind and ofType read it as the introspection object.
KindOf(typeObj) == IF typeObj.wraps = << >> THEN "NAMED" ELSE Head(typeObj.wraps)

OfType(typeObj) == [ typeObj EXCEPT !.wraps = Tail(@) ]

\* getTypeName that unwraps NON_NULL but prints a LIST in list syntax.
RECURSIVE getTypeNameKeepsList(_)
getTypeNameKeepsList(typeObj) ==
  IF KindOf(typeObj) = "NON_NULL" THEN getTypeNameKeepsList(OfType(typeObj))
  ELSE IF KindOf(typeObj) = "LIST"
    THEN << "[" >> \o getTypeNameKeepsList(OfType(typeObj)) \o << "]" >>
  ELSE typeObj.name

RECURSIVE getTypeName(_)
getTypeName(typeObj) ==
  IF KindOf(typeObj) = "NON_NULL" THEN getTypeName(OfType(typeObj))
  ELSE IF KindOf(typeObj) = "LIST" THEN getTypeName(OfType(typeObj))
  ELSE typeObj.name

isNonNull(typeObj) == KindOf(typeObj) = "NON_NULL"

\* isList without the step through a NON_NULL wrapper.
isListOutermost(typeObj) == KindOf(typeObj) = "LIST"

RECURSIVE isList(_)
isList(typeObj) ==
  IF KindOf(typeObj) = "NON_NULL" THEN isList(OfType(typeObj))
  ELSE KindOf(typeObj) = "LIST"

\* determineNodeType without the test of the object's name.
determineNodeTypeByKind(type) ==
  CASE type.kind = "OBJECT" -> Some("Type")
    [] type.kind = "INTERFACE" -> Some("Interface")
    [] type.kind = "UNION" -> Some("Union")
    [] type.kind = "ENUM" -> Some("Enum")
    [] type.kind = "INPUT_OBJECT" -> Some("Input")
    [] OTHER -> None

determineNodeType(type) ==
  CASE type.kind = "OBJECT" ->
         IF type.name = << "Query" >> THEN Some("Query")
         ELSE IF type.name = << "Mutation" >> THEN Some("Mutation")
         ELSE Some("Type")
    [] type.kind = "INTERFACE" -> Some("Interface")
    [] type.kind = "UNION" -> Some("Union")
    [] type.kind = "ENUM" -> Some("Enum")
    [] type.kind = "INPUT_OBJECT" -> Some("Input")
    [] OTHER -> None

\* String.prototype.startsWith
startsWith(text, lit) == HasAt(text, 1, lit)

\* The SchemaField of one introspection field.
schemaField(field) ==
  [ name |-> field.name,
    type |-> getTypeName(field.type),
    isNonNull |-> isNonNull(field.type),
    isList |-> isList(field.type),
    description |-> field.description ]

\* The SchemaNode pushed for one introspection type that has a node type.
schemaNode(type) ==
  [ type |-> determineNodeType(type)[1],
    name |-> type.name,
    description |-> type.description,
    fields |-> IF type.kind = "OBJECT" \/ type.kind = "INTERFACE"
               THEN Some([ k \in 1..Len(type.fields) |-> schemaField(type.fields[k]) ])
               ELSE None ]

\* SchemaAnalyzer.analyze on a loaded schema, given as the list of its
\* introspection types.
RECURSIVE analyze(_)
analyze(types) ==
  IF types = << >> THEN << >>
  ELSE LET type == Head(types)
       IN IF startsWith(type.name, << "__" >>) THEN analyze(Tail(types))
          ELSE IF determineNodeType(type) = None THEN analyze(Tail(types))
          ELSE << schemaNode(type) >> \o analyze(Tail(types))

\* GraphQLType.toString(): a list in brackets, a non-null type with "!".
RECURSIVE typeToString(_)
typeToString(typeObj) ==
  IF KindOf(typeObj) = "NON_NULL" THEN typeToString(OfType(typeObj)) \o << "!" >>
  ELSE IF KindOf(typeObj) = "LIST"
    THEN << "[" >> \o typeToString(OfType(typeObj)) \o << "]" >>
  ELSE typeObj.name

\* The while loop of findTypeDependencies: step to ofType as long as the
\* printed type holds "[" or "!" and the type has an ofType.
RECURSIVE unwrapFieldType(_)
unwrapFieldType(fieldType) ==
  IF includes(typeToString(fieldType), << "[" >>)
       \/ includes(typeToString(fieldType), << "!" >>)
  THEN IF fieldType.wraps # << >> THEN unwrapFieldType(OfType(fieldType))
       ELSE fieldType
  ELSE fieldType

\* The type has getFields: object, interface and input object types.
hasGetFields(type) == type.kind \in { "OBJECT", "INTERFACE", "INPUT_OBJECT" }

\* The scalar names findTypeDependencies leaves out.
dependencyScalars ==
  << << "ID" >>, << "String" >>, << "Int" >>, << "Float" >>, << "Boolean" >> >>

\* The dependency list of a type, were every non-scalar field type pushed.
RECURSIVE fieldDependenciesRepeating(_, _)
fieldDependenciesRepeating(fields, found) ==
  IF fields = << >> THEN found
  ELSE LET name == typeToString(unwrapFieldType(Head(fields).type))
       IN IF name # << >> /\ ~ arrayIncludes(dependencyScalars, name)
          THEN fieldDependenciesRepeating(Tail(fields), Append(found, name))
          ELSE fieldDependenciesRepeating(Tail(fields), found)

\* The dependency list the field loop builds for one type, from found.
RECURSIVE fieldDependencies(_, _)
fieldDependencies(fields, found) ==
  IF fields = << >> THEN found
  ELSE LET name == typeToString(unwrapFieldType(Head(fields).type))
       IN IF name # << >> /\ ~ arrayIncludes(dependencyScalars, name)
               /\ ~ arrayIncludes(found, name)
          THEN fieldDependencies(Tail(fields), Append(found, name))
          ELSE fieldDependencies(Tail(fields), found)

\* SchemaAnalyzer.findTypeDependencies on a loaded schema: the entries of
\* the returned record, in the order of the type map.
RECURSIVE findTypeDependencies(_)
findTypeDependencies(types) ==
  IF types = << >> THEN << >>
  ELSE LET type == Head(types)
       IN IF startsWith(type.name, << "__" >>) THEN findTypeDependencies(Tail(types))
          ELSE << [ typeName |-> type.name,
                    dependencies |->
                      IF hasGetFields(type) THEN fieldDependencies(type.fields, << >>)
                      ELSE << >> ] >>
                 \o findTypeDependencies(Tail(types))

\* --------------------------------------------------- schemas (inputs)

\* Wrapper chains of at most n wrappers; NON_NULL never wraps NON_NULL.
RECURSIVE WrapChains(_)
WrapChains(n) ==
  IF n = 0 THEN { << >> }
  ELSE LET shorter == WrapChains(n - 1)
       IN shorter
            \cup { << "LIST" >> \o c : c \in shorter }
            \cup { << "NON_NULL" >> \o c :
                     c \in { d \in shorter : d = << >> \/ Head(d) # "NON_NULL" } }

NamedTypes == { << "ID" >>, << "User" >> }

TypeRefs(n) == { [ wraps |-> c, name |-> t ] : c \in WrapChains(n), t \in NamedTypes }

FieldNames == << << "id" >>, << "author" >>, << "title" >>, << "tags" >> >>

\* Field lists of at most n fields whose types are drawn from refs.
RECURSIVE FieldLists(_, _)
FieldLists(n, refs) ==
  IF n = 0 THEN { << >> }
  ELSE LET shorter == FieldLists(n - 1, refs)
       IN shorter
            \cup { Append(fs, [ name |-> FieldNames[Len(fs) + 1],
                                type |-> r,
                                description |-> None ]) :
                     fs \in { g \in shorter : Len(g) = n - 1 }, r \in refs }

\* Type declarations with fields, and without.
FieldedDecls(n, refs) ==
  { [ kind |-> h[1], name |-> h[2], description |-> None, fields |-> fs ] :
      h \in { << "OBJECT", << "Query" >> >>, << "OBJECT", << "Post" >> >>,
              << "INTERFACE", << "Node" >> >>, << "OBJECT", << "__", "Type" >> >>,
              << "INPUT_OBJECT", << "PostInput" >> >> },
      fs \in FieldLists(n, refs) }

PlainDecls ==
  { [ kind |-> h[1], name |-> h[2], description |-> h[3], fields |-> None ] :
      h \in { << "ENUM", << "Role" >>, None >>,
              << "SCALAR", << "Date" >>, << "a", " ", "date" >> >>,
              << "UNION", << "SearchResult" >>, None >> } }

\* Schemas: none, one declaration with fields, or one with fields beside one
\* without.
SchemasOf(n, refs) ==
  { << >> }
    \cup { << d >> : d \in FieldedDecls(n, refs) }
    \cup { << p >> : p \in PlainDecls }
    \cup { << d, p >> : d \in FieldedDecls(n, refs), p \in PlainDecls }
    \cup { << p, d >> : d \in FieldedDecls(n, refs), p \in PlainDecls }

\* Schemas whose types have several fields: a type met twice and under
\* wrappers, scalars built in and not, an input type, an introspection type.
SampleSchemas ==
  LET ref(wraps, name) == [ wraps |-> wraps, name |-> name ]
      field(name, type) == [ name |-> << name >>, type |-> type, description |-> None ]
      decl(kind, name, fields) ==
        [ kind |-> kind, name |-> name, description |-> None, fields |-> fields ]
  IN { << decl("OBJECT", << "Post" >>,
               << field("id", ref(<< "NON_NULL" >>, << "ID" >>)),
                  field("author", ref(<< >>, << "User" >>)),
                  field("editors", ref(<< "NON_NULL", "LIST", "NON_NULL" >>, << "User" >>)),
                  field("created", ref(<< >>, << "Date" >>)) >>),
          decl("OBJECT", << "User" >>,
               << field("name", ref(<< >>, << "String" >>)),
                  field("posts", ref(<< "LIST" >>, << "Post" >>)) >>),
          decl("SCALAR", << "Date" >>, None) >>,
       << decl("INPUT_OBJECT", << "PostInput" >>,
               << field("title", ref(<< "NON_NULL" >>, << "String" >>)),
                  field("role", ref(<< >>, << "Role" >>)),
                  field("roles", ref(<< "LIST" >>, << "Role" >>)) >>),
          decl("OBJECT", << "__", "Schema" >>,
               << field("types", ref(<< "LIST" >>, << "__", "Type" >>)) >>),
          decl("ENUM", << "Role" >>, None) >>,
       << decl("OBJECT", << "Query" >>,
               << field("search", ref(<< "LIST" >>, << "SearchResult" >>)) >>),
          decl("OBJECT", << "Mutation" >>,
               << field("addPost", ref(<< >>, << "Post" >>)) >>),
          decl("UNION", << "SearchResult" >>, None),
          decl("SCALAR", << "String" >>, None),
          decl("INTERFACE", << "Node" >>,
               << field("id", ref(<< "NON_NULL" >>, << "ID" >>)) >>) >> }

Schemas == SchemasOf(MaxFields, TypeRefs(MaxWrap)) \cup SampleSchemas

\* Diagnostics of graphql's parse and of buildSubgraphSchema.
Diagnostics == { << "Syntax Error" >>, << "Unknown type" >> }

\* ------------------------------------------- schema model builder: behaviour

NotLoadedError == << "No schema loaded. Call loadSchema() first." >>

InitSchema ==
  /\ SchemaIdle
  /\ ClassifierIdle /\ SynthesizerIdle /\ MergeIdle /\ ScanIdle
  /\ RunIdle /\ LiteralIdle /\ VisualizerIdle

\* loadSchema on a document that parses and builds.  The model follows an
\* analyzer through one successful load.
LoadSchema ==
  /\ schema = None
  /\ \E s \in Schemas : schema' = Some(s)
  /\ thrown' = None
  /\ lastCall' = "loadSchema"
  /\ parseError' = None
  /\ loaded' = TRUE
  /\ UNCHANGED << schemaNodes, typeDependencies, classifierVars, synthesizerVars,
                  mergeVars, scanVars,
                  runVars, literalVars, visualizerVars >>

\* loadSchema on a document that parse or buildSubgraphSchema rejects, were
\* the failure reported on the spinner only.
LoadSchemaFailsAbsorbed ==
  /\ \E d \in Diagnostics : parseError' = Some(d)
  /\ thrown' = None
  /\ lastCall' = "loadSchema"
  /\ UNCHANGED << schema, schemaNodes, loaded, typeDependencies, classifierVars,
                  synthesizerVars, mergeVars, scanVars,
                  runVars, literalVars, visualizerVars >>

\* loadSchema on a document that parse or buildSubgraphSchema rejects, were
\* the schema field cleared before the document is read.
LoadSchemaFailsClearing ==
  /\ \E d \in Diagnostics :
       /\ parseError' = Some(d)
       /\ thrown' = Some(<< "Failed to load GraphQL schema: " >> \o d)
  /\ lastCall' = "loadSchema"
  /\ schema' = None
  /\ UNCHANGED << schemaNodes, loaded, typeDependencies, classifierVars,
                  synthesizerVars, mergeVars, scanVars,
                  runVars, literalVars, visualizerVars >>

\* loadSchema on a document that parse or buildSubgraphSchema rejects.
LoadSchemaFails ==
  /\ \E d \in Diagnostics :
       /\ parseError' = Some(d)
       /\ thrown' = Some(<< "Failed to load GraphQL schema: " >> \o d)
  /\ lastCall' = "loadSchema"
  /\ UNCHANGED << schema, schemaNodes, loaded, typeDependencies, classifierVars,
                  synthesizerVars, mergeVars, scanVars,
                  runVars, literalVars, visualizerVars >>

Analyze ==
  /\ IF schema = None
     THEN thrown' = Some(NotLoadedError) /\ UNCHANGED schemaNodes
     ELSE thrown' = None /\ schemaNodes' = Some(analyze(schema[1]))
  /\ lastCall' = "analyze"
  /\ UNCHANGED << schema, parseError, loaded, typeDependencies, classifierVars,
                  synthesizerVars, mergeVars, scanVars,
                  runVars, literalVars, visualizerVars >>

\* findTypeDependencies without the test of this.schema.
FindTypeDependenciesUnguarded ==
  /\ thrown' = None
  /\ typeDependencies' =
       Some(findTypeDependencies(IF schema = None THEN << >> ELSE schema[1]))
  /\ lastCall' = "findTypeDependencies"
  /\ UNCHANGED << schema, schemaNodes, parseError, loaded, classifierVars,
                  synthesizerVars, mergeVars, scanVars,
                  runVars, literalVars, visualizerVars >>

FindTypeDependencies ==
  /\ IF schema = None
     THEN thrown' = Some(NotLoadedError) /\ UNCHANGED typeDependencies
     ELSE thrown' = None /\ typeDependencies' = Some(findTypeDependencies(schema[1]))
  /\ lastCall' = "findTypeDependencies"
  /\ UNCHANGED << schema, schemaNodes, parseError, loaded, classifierVars,
                  synthesizerVars, mergeVars, scanVars,
                  runVars, literalVars, visualizerVars >>

NextSchema == LoadSchema \/ LoadSchemaFails \/ Analyze \/ FindTypeDependencies

SpecSchema == InitSchema /\ [][NextSchema]_vars

\* --------------------------------------------- schema model builder: claims

\* The declarations of the loaded schema that analyze() turns into nodes.
EmittedDecls ==
  { schema[1][i] : i \in { j \in 1..Len(schema[1]) :
      /\ ~ startsWith(schema[1][j].name, << "__" >>)
      /\ schema[1][j].kind \in { "OBJECT", "INTERFACE" } } }

\* C3: the type string of every field of every node analyze() returns is the
\* innermost named type of the declared type, whatever the nesting of
\* wrappers, and holds none of "[", "]", "!".
C3_FieldTypeUnwrapped ==
  schemaNodes # None =>
    \A n \in 1..Len(schemaNodes[1]) :
      LET node == schemaNodes[1][n]
      IN node.fields # None =>
           \A d \in EmittedDecls :
             d.name = node.name =>
               /\ Len(node.fields[1]) = Len(d.fields)
               /\ \A k \in 1..Len(d.fields) :
                    LET type == node.fields[1][k].type
                    IN /\ type = d.fields[k].type.name
                       /\ \A i \in 1..Len(type) : type[i] \notin { "[", "]", "!" }

\* analyze() has returned a node with a field declared [User!].
C3_Witness ==
  /\ schemaNodes # None
  /\ \E n \in 1..Len(schemaNodes[1]) :
       /\ schemaNodes[1][n].fields # None
       /\ \E d \in EmittedDecls :
            /\ d.name = schemaNodes[1][n].name
            /\ \E k \in 1..Len(d.fields) :
                 /\ d.fields[k].type.wraps = << "LIST", "NON_NULL" >>
                 /\ schemaNodes[1][n].fields[1][k].type = << "User" >>

\* A wrapper of the kind occurs on the chain of the declared type.
OnChain(typeObj, kind) == \E i \in 1..Len(typeObj.wraps) : typeObj.wraps[i] = kind

\* C4 as stated: isNonNull is true iff a NON_NULL wrapper is met anywhere on
\* the chain, and isList iff a LIST wrapper is.
C4_AsStated ==
  schemaNodes # None =>
    \A n \in 1..Len(schemaNodes[1]) :
      LET node == schemaNodes[1][n]
      IN node.fields # None =>
           \A d \in EmittedDecls :
             d.name = node.name =>
               \A k \in 1..Len(d.fields) :
                 /\ node.fields[1][k].isNonNull = OnChain(d.fields[k].type, "NON_NULL")
                 /\ node.fields[1][k].isList = OnChain(d.fields[k].type, "LIST")

\* C4 amended: isNonNull is true iff the outermost wrapper of the declared
\* type is NON_NULL, and isList is true iff a LIST wrapper is met anywhere
\* on the chain.
C4_WrapperFlags ==
  schemaNodes # None =>
    \A n \in 1..Len(schemaNodes[1]) :
      LET node == schemaNodes[1][n]
      IN node.fields # None =>
           \A d \in EmittedDecls :
             d.name = node.name =>
               \A k \in 1..Len(d.fields) :
                 LET wraps == d.fields[k].type.wraps
                 IN /\ node.fields[1][k].isNonNull =
                         (wraps # << >> /\ wraps[1] = "NON_NULL")
                    /\ node.fields[1][k].isList = OnChain(d.fields[k].type, "LIST")

\* analyze() has returned a field declared [User]! with both flags true.
C4_Witness ==
  /\ schemaNodes # None
  /\ \E n \in 1..Len(schemaNodes[1]) :
       /\ schemaNodes[1][n].fields # None
       /\ \E d \in EmittedDecls :
            /\ d.name = schemaNodes[1][n].name
            /\ \E k \in 1..Len(d.fields) :
                 /\ d.fields[k].type.wraps = << "NON_NULL", "LIST" >>
                 /\ schemaNodes[1][n].fields[1][k].isNonNull
                 /\ schemaNodes[1][n].fields[1][k].isList

\* C13: while no loadSchema call has succeeded, a call of analyze() or of
\* findTypeDependencies() ends with the not-loaded error and neither has
\* ever returned a value, whatever calls came before, failed loads included.
C13_NotLoaded ==
  (~ loaded /\ lastCall \in { "analyze", "findTypeDependencies" }) =>
    /\ thrown = Some(NotLoadedError)
    /\ schemaNodes = None
    /\ typeDependencies = None

\* After a loadSchema call that failed and before any that succeeded,
\* findTypeDependencies() has thrown the not-loaded error.
C13_Witness ==
  /\ ~ loaded
  /\ parseError # None
  /\ lastCall = "findTypeDependencies"
  /\ thrown = Some(NotLoadedError)
  /\ typeDependencies = None

\* C14: a loadSchema call whose input parse or buildSubgraphSchema rejected
\* has not completed: it has thrown to its caller an error whose message
\* holds the diagnostic it caught.
C14_LoadFailurePropagates ==
  (lastCall = "loadSchema" /\ parseError # None) =>
    /\ thrown # None
    /\ thrown # Some(NotLoadedError)
    /\ includes(thrown[1], parseError[1])

\* A loadSchema call on a loaded analyzer has failed with a syntax error.
C14_Witness ==
  /\ lastCall = "loadSchema"
  /\ loaded
  /\ parseError = Some(<< "Syntax Error" >>)
  /\ thrown = Some(<< "Failed to load GraphQL schema: ", "Syntax Error" >>)

\* The fully unwrapped named types of the fields of a declaration, the five
\* built-in scalar names left out.
NamedFieldTypes(type) ==
  { type.fields[k].type.name : k \in 1..Len(type.fields) }
    \ { << "ID" >>, << "String" >>, << "Int" >>, << "Float" >>, << "Boolean" >> }

\* The declarations of the loaded schema whose name is not internal.
RECURSIVE NonInternal(_)
NonInternal(types) ==
  IF types = << >> THEN << >>
  ELSE IF Head(types).name[1] = "__" THEN NonInternal(Tail(types))
  ELSE << Head(types) >> \o NonInternal(Tail(types))

\* C15: the value findTypeDependencies returns has one entry for every type
\* of the schema whose name is not introspection-internal and no other, and
\* each entry lists exactly the fully unwrapped named types of that type's
\* fields, none twice and none of ID, String, Int, Float, Boolean.
C15_TypeDependencyMap ==
  typeDependencies # None =>
    LET entries == typeDependencies[1]
        types == NonInternal(schema[1])
    IN /\ Len(entries) = Len(types)
       /\ \A n \in 1..Len(entries) :
            /\ entries[n].typeName = types[n].name
            /\ { entries[n].dependencies[k] : k \in 1..Len(entries[n].dependencies) }
                 = NamedFieldTypes(types[n])
            /\ Len(entries[n].dependencies) = Cardinality(NamedFieldTypes(types[n]))

\* findTypeDependencies has returned for the schema whose type Post names
\* User in two fields, under wrappers in one, beside an ID and a Date:
\* Post depends on User and Date, once each.
C15_Witness ==
  /\ typeDependencies # None
  /\ Len(typeDependencies[1]) = 3
  /\ typeDependencies[1][1].typeName = << "Post" >>
  /\ typeDependencies[1][1].dependencies = << << "User" >>, << "Date" >> >>
  /\ Len(schema[1][1].fields) = 4
  /\ typeDependencies[1][3].dependencies = << >>

\* The node kind the mapping rule names for a declaration.
NodeKind(type) ==
  IF type.kind = "OBJECT" THEN
    IF type.name = << "Query" >> THEN "Query"
    ELSE IF type.name = << "Mutation" >> THEN "Mutation"
    ELSE "Type"
  ELSE IF type.kind = "INTERFACE" THEN "Interface"
  ELSE IF type.kind = "UNION" THEN "Union"
  ELSE IF type.kind = "ENUM" THEN "Enum"
  ELSE IF type.kind = "INPUT_OBJECT" THEN "Input"
  ELSE "none"

\* C22 as stated: the nodes analyze() returns are, one for one, the
\* declarations of the schema whose name is not introspection-internal,
\* each with the kind its structural kind and name fix.
C22_AsStated ==
  schemaNodes # None =>
    LET types == NonInternal(schema[1])
    IN /\ Len(schemaNodes[1]) = Len(types)
       /\ \A n \in 1..Len(types) :
            /\ schemaNodes[1][n].name = types[n].name
            /\ schemaNodes[1][n].type = NodeKind(types[n])

\* The declarations that are objects, interfaces, unions, enums or inputs.
Structured(types) ==
  SelectSeq(types, LAMBDA t : t.kind \in { "OBJECT", "INTERFACE", "UNION", "ENUM",
                                           "INPUT_OBJECT" })

\* C22: the nodes analyze() returns are, one for one, the object, interface,
\* union, enum and input-object declarations of the schema whose name is
\* not introspection-internal, each with the kind its structural kind and
\* name fix; a scalar declaration has no node and no node has an
\* introspection-internal name.
C22_NodePerDeclaration ==
  schemaNodes # None =>
    LET types == Structured(NonInternal(schema[1]))
    IN /\ Len(schemaNodes[1]) = Len(types)
       /\ \A n \in 1..Len(types) :
            /\ schemaNodes[1][n].name = types[n].name
            /\ schemaNodes[1][n].type = NodeKind(types[n])
            /\ schemaNodes[1][n].name[1] # "__"

\* analyze() has returned for the schema Query, Mutation, union
\* SearchResult, scalar String, interface Node: four nodes, none for String.
C22_Witness ==
  /\ schemaNodes # None
  /\ Len(schema[1]) = 5
  /\ [ n \in 1..Len(schemaNodes[1]) |-> schemaNodes[1][n].type ]
       = << "Query", "Mutation", "Union", "Interface" >>

\* C27: a failed loadSchema leaves the loaded state unchanged. Once a load
\* has succeeded, analyze() and findTypeDependencies() do not throw and
\* return the results of the schema that load held, also after a failed
\* load; while none has succeeded no schema is held; and the held schema
\* changes only in a loadSchema call that succeeds.
C27_FailedLoadKeepsState ==
  /\ [](/\ ~ loaded => schema = None
        /\ loaded =>
             /\ schema # None
             /\ lastCall = "analyze" =>
                  thrown = None /\ schemaNodes = Some(analyze(schema[1]))
             /\ lastCall = "findTypeDependencies" =>
                  /\ thrown = None
                  /\ typeDependencies = Some(findTypeDependencies(schema[1])))
  /\ [][schema' # schema =>
          lastCall' = "loadSchema" /\ parseError' = None /\ thrown' = None]_vars

\* A load succeeded, a later one failed, and analyze() then returned the
\* nodes of the loaded schema.
C27_Witness ==
  /\ loaded
  /\ parseError # None
  /\ lastCall = "analyze"
  /\ thrown = None
  /\ schemaNodes # None
  /\ schemaNodes[1] # << >>
  /\ schemaNodes[1] = analyze(schema[1])

\* ------------------------------------------------------ graph synthesizer

\* The connections array a call starts from, were it kept on the instance
\* between calls instead of created by each call.
connectionsKept == IF lastConnections = None THEN << >> ELSE lastConnections[1]

\* const connections = [] at the start of analyzeConnections.
connectionsStart == << >>

\* The scalar names without ID.
builtInScalarsWithoutID ==
  << << "String" >>, << "Int" >>, << "Float" >>, << "Boolean" >> >>

\* The scalar names whose fields yield no references edge.
builtInScalars ==
  << << "ID" >>, << "String" >>, << "Int" >>, << "Float" >>, << "Boolean" >> >>

\* The atoms of text outside the set S: text.replace(/[...]/g, '').
RECURSIVE removeAtoms(_, _)
removeAtoms(text, S) ==
  IF text = << >> THEN << >>
  ELSE IF Head(text) \in S THEN removeAtoms(Tail(text), S)
  ELSE << Head(text) >> \o removeAtoms(Tail(text), S)

\* The source of every edge pushed for a resolver.
edgeFrom(resolver) == resolver.typeName \o << "." >> \o resolver.fieldName

\* The resolves edge pushed for one resolver.
resolvesEdges(resolver) ==
  << [ from |-> edgeFrom(resolver),
       to |-> resolver.typeName,
       type |-> "resolves",
       description |-> << "Resolver for " >> \o edgeFrom(resolver) ] >>

\* The data-source edge, were the API target the type before the endpoint.
sourceEdgesTypeFirst(resolver) ==
  IF resolver.sourceType = << "database" >> /\ resolver.databaseInfo # None THEN
    LET model == OrElse(resolver.databaseInfo[1].model, << "unknown" >>)
    IN << [ from |-> edgeFrom(resolver),
            to |-> << "DB:" >> \o model,
            type |-> "calls",
            description |-> << "Accesses " >> \o model \o << " via " >>
                              \o resolver.databaseInfo[1].type ] >>
  ELSE IF resolver.sourceType = << "api" >> /\ resolver.apiInfo # None THEN
    LET api == resolver.apiInfo[1]
    IN << [ from |-> edgeFrom(resolver),
            to |-> << "API:" >> \o OrElse(api.type, api.endpoint),
            type |-> "calls",
            description |-> << "Calls " >> \o api.type \o << " API " >>
                              \o (IF api.endpoint # None
                                  THEN << "at " >> \o api.endpoint
                                  ELSE << >>) ] >>
  ELSE << >>

\* The data-source edge pushed for one resolver, if its source is known.
sourceEdges(resolver) ==
  IF resolver.sourceType = << "database" >> /\ resolver.databaseInfo # None THEN
    LET model == OrElse(resolver.databaseInfo[1].model, << "unknown" >>)
    IN << [ from |-> edgeFrom(resolver),
            to |-> << "DB:" >> \o model,
            type |-> "calls",
            description |-> << "Accesses " >> \o model \o << " via " >>
                              \o resolver.databaseInfo[1].type ] >>
  ELSE IF resolver.sourceType = << "api" >> /\ resolver.apiInfo # None THEN
    LET api == resolver.apiInfo[1]
    IN << [ from |-> edgeFrom(resolver),
            to |-> << "API:" >> \o OrElse(api.endpoint, api.type),
            type |-> "calls",
            description |-> << "Calls " >> \o api.type \o << " API " >>
                              \o (IF api.endpoint # None
                                  THEN << "at " >> \o api.endpoint
                                  ELSE << >>) ] >>
  ELSE << >>

\* The dependency edges, were each drawn to the type of the dependency.
dependencyEdgesToType(resolver) ==
  IF resolver.dependencies # None
  THEN [ n \in 1..Len(resolver.dependencies[1]) |->
           [ from |-> edgeFrom(resolver),
             to |-> << Head(resolver.dependencies[1][n]) >>,
             type |-> "calls",
             description |-> << "Depends on " >> \o resolver.dependencies[1][n] ] ]
  ELSE << >>

\* The dependency edges pushed for one resolver.
dependencyEdges(resolver) ==
  IF resolver.dependencies # None
  THEN [ n \in 1..Len(resolver.dependencies[1]) |->
           [ from |-> edgeFrom(resolver),
             to |-> resolver.dependencies[1][n],
             type |-> "calls",
             description |-> << "Depends on " >> \o resolver.dependencies[1][n] ] ]
  ELSE << >>

\* The edges pushed for one resolver: resolves, data source, dependencies.
resolverEdges(resolver) ==
  resolvesEdges(resolver) \o sourceEdges(resolver) \o dependencyEdges(resolver)

\* The edge pushed for one field of a node, if any.
fieldEdges(node, field) ==
  IF ~ arrayIncludes(builtInScalars, field.type)
  THEN << [ from |-> node.name,
            to |-> removeAtoms(field.type, { "[", "]", "!" }),
            type |-> "references",
            description |-> node.name \o << " references " >> \o field.type
                              \o << " via " >> \o field.name \o << " field" >> ] >>
  ELSE << >>

\* The edges of one schema node, were a field-of edge pushed for every field.
nodeEdgesWithFieldOf(node) ==
  IF node.fields # None
  THEN flatten([ k \in 1..Len(node.fields[1]) |->
                   << [ from |-> node.fields[1][k].name,
                        to |-> node.name,
                        type |-> "field-of",
                        description |-> << >> ] >>
                     \o fieldEdges(node, node.fields[1][k]) ])
  ELSE << >>

\* The edges pushed for one schema node.
nodeEdges(node) ==
  IF node.fields # None
  THEN flatten([ k \in 1..Len(node.fields[1]) |-> fieldEdges(node, node.fields[1][k]) ])
  ELSE << >>

\* The connections, were the schema loop run before the resolver loop.
analyzeConnectionsNodesFirst(nodes, resolverInfos) ==
  connectionsStart
    \o flatten([ n \in 1..Len(nodes) |-> nodeEdges(nodes[n]) ])
    \o flatten([ n \in 1..Len(resolverInfos) |-> resolverEdges(resolverInfos[n]) ])

\* The connections of the AnalysisResult analyzeConnections returns.
analyzeConnections(nodes, resolverInfos) ==
  connectionsStart
    \o flatten([ n \in 1..Len(resolverInfos) |-> resolverEdges(resolverInfos[n]) ])
    \o flatten([ n \in 1..Len(nodes) |-> nodeEdges(nodes[n]) ])

\* ------------------------------------------------------------- visualizer

\* The node pushed for one schema node.
schemaGraphNode(node) ==
  [ id |-> node.name, label |-> node.name, group |-> "schema", type |-> node.type ]

\* The node pushed for one resolver: its id is the resolver's path.
resolverGraphNode(resolver) ==
  LET parts == split(resolver.path, ".")
  IN [ id |-> resolver.path,
       label |-> IF Len(parts) >= 2 THEN parts[2] ELSE None,
       group |-> "resolver",
       type |-> resolver.sourceType ]

\* sourceNodeId: the id of the data-source node of a resolver, "" for none.
sourceNodeId(resolver) ==
  IF resolver.sourceType = << "database" >> /\ resolver.databaseInfo # None THEN
    << "db_" >> \o resolver.databaseInfo[1].type \o << "_" >>
      \o OrElse(resolver.databaseInfo[1].model, << "unknown" >>)
  ELSE IF resolver.sourceType = << "api" >> /\ resolver.apiInfo # None THEN
    << "api_" >> \o resolver.apiInfo[1].type \o << "_" >>
      \o OrElse(resolver.apiInfo[1].endpoint, << "unknown" >>)
  ELSE << >>

\* sourceNodeLabel: the name and the type, or the type alone.
sourceNodeLabel(resolver) ==
  IF resolver.sourceType = << "database" >> /\ resolver.databaseInfo # None THEN
    LET info == resolver.databaseInfo[1]
    IN IF info.model # None THEN info.model \o << " (" >> \o info.type \o << ")" >>
       ELSE info.type
  ELSE IF resolver.sourceType = << "api" >> /\ resolver.apiInfo # None THEN
    LET info == resolver.apiInfo[1]
    IN IF info.endpoint # None THEN info.endpoint \o << " (" >> \o info.type \o << ")" >>
       ELSE info.type
  ELSE << >>

\* The nodes after the resolver loop of prepareNodes over the given resolvers.
RECURSIVE addResolverNodes(_, _, _)
addResolverNodes(resolvers, options, nodes) ==
  IF resolvers = << >> THEN nodes
  ELSE LET resolver == Head(resolvers)
           withResolver == Append(nodes, resolverGraphNode(resolver))
           id == sourceNodeId(resolver)
           withSource ==
             IF /\ options.groupBySource
                /\ resolver.sourceType # << "unknown" >>
                /\ resolver.sourceType # << "computed" >>
                /\ id # << >>
                /\ ~ \E n \in 1..Len(withResolver) : withResolver[n].id = id
             THEN Append(withResolver,
                         [ id |-> id,
                           label |-> sourceNodeLabel(resolver),
                           group |-> "dataSource",
                           type |-> resolver.sourceType ])
             ELSE withResolver
       IN addResolverNodes(Tail(resolvers), options, withSource)

prepareNodes(schemaNodeList, resolvers, options) ==
  addResolverNodes(resolvers, options,
                   [ n \in 1..Len(schemaNodeList) |-> schemaGraphNode(schemaNodeList[n]) ])

prepareEdges(connections) ==
  [ n \in 1..Len(connections) |->
      [ source |-> connections[n].from,
        target |-> connections[n].to,
        type |-> connections[n].type,
        label |-> connections[n].type ] ]

\* ------------------------------------------- graph synthesizer (inputs)

\* Field types of the synthesizer's schemas.
ConnTypeRefs ==
  { [ wraps |-> << >>, name |-> t ] : t \in { << "ID" >>, << "String" >>, << "User" >> } }
    \cup { [ wraps |-> << "NON_NULL", "LIST" >>, name |-> << "User" >> ] }

\* Node lists: what analyze() returns for a schema.
NodeLists == { analyze(s) : s \in SchemasOf(MaxConnFields, ConnTypeRefs) }

\* Resolver texts of the synthesizer's inputs.
ConnTexts ==
  { << "prisma", ".", "user", ".", "find", "Many", "(", ")" >>,
    << "sql", "(", "'", "SELECT", "'", ")" >>,
    << "axios", ".", "get", "(", " ", "'", "/", "y", "'", ")" >>,
    << "fetch", "(", "'", "/", "y", "'", ")" >>,
    << "return", " ", "x" >>,
    << "Query", ".", "resolvers", ".", "users", ";",
       "User", ".", "resolvers", ".", "post" >> }

\* The ResolverInfos of the file scan, and of both entry points.
ScanInfos ==
  { analyzeResolverImplementation(t, p) : t \in ConnTexts, p \in ScanPaths }

\* ResolverInfos a caller builds by hand, as the interface allows: a source
\* type without its detail, a detail without a model or an endpoint, a
\* dependency listed twice.
TypedInfos ==
  { [ path |-> << "Query", ".", "users" >>,
      typeName |-> << "Query" >>,
      fieldName |-> << "users" >>,
      code |-> << >>,
      sourceType |-> d[1],
      databaseInfo |-> d[2],
      apiInfo |-> d[3],
      dependencies |-> d[4] ] :
      d \in { << << "database" >>, None, None, None >>,
              << << "api" >>, None, None, Some(<< >>) >>,
              << << "database" >>,
                 Some([ type |-> << "sequelize" >>, operation |-> None, model |-> None ]),
                 None,
                 Some(<< << "User", ".", "post" >>, << "User", ".", "post" >> >>) >>,
              << << "api" >>, None,
                 Some([ type |-> << "grpc" >>, method |-> None, endpoint |-> None ]),
                 None >> } }

ResolverInfos ==
  ScanInfos
    \cup { schemaResolverInfo(tf[1], tf[2], t) : t \in ConnTexts, tf \in SchemaFieldRefs }
    \cup TypedInfos

\* Lists of at most n of them.
RECURSIVE ResolverLists(_)
ResolverLists(n) ==
  IF n = 0 THEN { << >> }
  ELSE LET shorter == ResolverLists(n - 1)
       IN shorter \cup { Append(l, r) : l \in shorter, r \in ResolverInfos }

\* One fixed list of each kind, to go with every list of the other kind.
SampleNodes ==
  analyze(<< [ kind |-> "OBJECT", name |-> << "Post" >>, description |-> None,
               fields |-> << [ name |-> << "author" >>,
                               type |-> [ wraps |-> << >>, name |-> << "User" >> ],
                               description |-> None ] >> ] >>)

SampleResolvers ==
  << analyzeResolverImplementation(
       << "prisma", ".", "user", ".", "find", "Many", "(", ")" >>,
       << "Query", ".", "users" >>) >>

\* The argument pairs of analyzeConnections.
\* Two nodes with several fields each, and lists of two resolvers: one with
\* a data source beside one with two dependencies, in both orders.
SampleNodePair ==
  analyze(<< [ kind |-> "OBJECT", name |-> << "Post" >>, description |-> None,
               fields |-> << [ name |-> << "author" >>,
                               type |-> [ wraps |-> << >>, name |-> << "User" >> ],
                               description |-> None ],
                             [ name |-> << "created" >>,
                               type |-> [ wraps |-> << >>, name |-> << "Date" >> ],
                               description |-> None ] >> ],
             [ kind |-> "OBJECT", name |-> << "User" >>, description |-> None,
               fields |-> << [ name |-> << "id" >>,
                               type |-> [ wraps |-> << "NON_NULL" >>, name |-> << "ID" >> ],
                               description |-> None ],
                             [ name |-> << "posts" >>,
                               type |-> [ wraps |-> << "LIST" >>, name |-> << "Post" >> ],
                               description |-> None ] >> ] >>)

SampleResolverPairs ==
  LET sourced == schemaResolverInfo(<< "Query" >>, << "users" >>,
                   << "prisma", ".", "user", ".", "find", "Many", "(", ")" >>)
      dependent == analyzeResolverImplementation(
                     << "Query", ".", "resolvers", ".", "users", ";",
                        "User", ".", "resolvers", ".", "post" >>,
                     << "user", "Resolver" >>)
  IN { << sourced, dependent >>, << dependent, sourced >> }

ConnInputs ==
  { << ns, rs >> : ns \in NodeLists, rs \in { << >>, SampleResolvers } }
    \cup { << ns, rs >> : ns \in { << >>, SampleNodes }, rs \in ResolverLists(MaxResolvers) }
    \cup { << ns, rs >> : ns \in { SampleNodes, SampleNodePair }, rs \in SampleResolverPairs }

\* -------------------------------------------- graph synthesizer: behaviour

InitConnections ==
  /\ \E in \in ConnInputs : argNodes = in[1] /\ argResolvers = in[2]
  /\ returned = << >>
  /\ lastConnections = None
  /\ ClassifierIdle /\ SchemaIdle /\ MergeIdle /\ ScanIdle
  /\ RunIdle /\ LiteralIdle
  /\ VisualizerIdle

\* A call of analyzeConnections on the arguments under study.
AnalyzeConnections ==
  /\ Len(returned) < MaxCalls
  /\ LET connections == analyzeConnections(argNodes, argResolvers)
     IN /\ returned' = Append(returned, connections)
        /\ lastConnections' = Some(connections)
  /\ UNCHANGED << argNodes, argResolvers, classifierVars, schemaVars, mergeVars,
                  scanVars,
                  runVars, literalVars, visualizerVars >>

\* A call of analyzeConnections of the same instance on other arguments.
AnalyzeOtherConnections ==
  /\ Len(returned) < MaxCalls
  /\ \E rs \in { << >>, SampleResolvers } :
       lastConnections' = Some(analyzeConnections(SampleNodes, rs))
  /\ UNCHANGED << argNodes, argResolvers, returned, classifierVars, schemaVars,
                  mergeVars, scanVars,
                  runVars, literalVars, visualizerVars >>

\* generateD3Visualization on the AnalysisResult of the last call on the
\* arguments under study.
GenerateVisualization ==
  /\ returned # << >>
  /\ visOptions = None
  /\ \E groupBySource \in BOOLEAN :
       LET options == [ groupBySource |-> groupBySource ]
       IN /\ visOptions' = Some(options)
          /\ visNodes' = Some(prepareNodes(argNodes, argResolvers, options))
          /\ visEdges' = Some(prepareEdges(returned[Len(returned)]))
  /\ UNCHANGED << synthesizerVars, classifierVars, schemaVars, mergeVars, scanVars,
                  runVars, literalVars >>

NextConnections == AnalyzeConnections \/ AnalyzeOtherConnections \/ GenerateVisualization

SpecConnections == InitConnections /\ [][NextConnections]_vars

\* ----------------------------------------------- graph synthesizer: claims

\* C6: the calls of analyzeConnections on identical arguments return equal
\* connection sequences, element by element and in the same order, whatever
\* other calls the instance served in between.
C6_SameArgumentsSameConnections ==
  \A i, j \in 1..Len(returned) :
    /\ Len(returned[i]) = Len(returned[j])
    /\ \A k \in 1..Len(returned[i]) : returned[i][k] = returned[j][k]

\* Two calls on the same arguments, a resolver among them, have returned
\* connections that are not empty.
C6_Witness ==
  /\ Len(returned) = 2
  /\ returned[1] # << >>
  /\ lastConnections = Some(returned[2])
  /\ argNodes # SampleNodes
  /\ argResolvers # << >>

\* The subsequence of the edges of one type.
EdgesOfType(connections, type) ==
  LET keep(e) == e.type = type IN SelectSeq(connections, keep)

\* The types of the fields of a node that are none of the five scalar names.
ReferencedTypes(node) ==
  LET notScalar(f) ==
        f.type \notin { << "ID" >>, << "String" >>, << "Int" >>, << "Float" >>,
                        << "Boolean" >> }
      fields == IF node.fields = None THEN << >> ELSE SelectSeq(node.fields[1], notScalar)
  IN [ k \in 1..Len(fields) |-> fields[k].type ]

\* C7: for every node and every field of it, exactly one references edge
\* goes from the node's name to the field's unwrapped type when that type is
\* none of ID, String, Int, Float, Boolean, and none when it is: the
\* references edges are, in order, those of the nodes' non-scalar fields.
C7_ReferencesEdges ==
  \A c \in 1..Len(returned) :
    LET refs == EdgesOfType(returned[c], "references")
        expected ==
          flatten([ n \in 1..Len(argNodes) |->
                      [ k \in 1..Len(ReferencedTypes(argNodes[n])) |->
                          << argNodes[n].name, ReferencedTypes(argNodes[n])[k] >> ] ])
    IN /\ Len(refs) = Len(expected)
       /\ \A k \in 1..Len(refs) :
            refs[k].from = expected[k][1] /\ refs[k].to = expected[k][2]

\* A call has returned for a node Post with the fields id: ID and
\* author: [User]!, with one references edge, Post to User.
C7_Witness ==
  /\ Len(returned) >= 1
  /\ Len(argNodes) = 1
  /\ argNodes[1].name = << "Post" >>
  /\ argNodes[1].fields # None
  /\ Len(argNodes[1].fields[1]) = 2
  /\ argNodes[1].fields[1][1].type = << "ID" >>
  /\ argNodes[1].fields[1][2].type = << "User" >>
  /\ argNodes[1].fields[1][2].isList
  /\ Len(EdgesOfType(returned[1], "references")) = 1
  /\ EdgesOfType(returned[1], "references")[1].from = << "Post" >>
  /\ EdgesOfType(returned[1], "references")[1].to = << "User" >>

\* The declaring type name of a resolver path: the part before the first
\* dot, or the whole path when it has none.
DeclaringType(path) == split(path, ".")[1]

\* C10: for every resolver of the input, the file scan's included, exactly
\* one resolves edge is emitted, from the resolver's path to its declaring
\* type name.
C10_ResolvesEdges ==
  \A c \in 1..Len(returned) :
    LET resolves == EdgesOfType(returned[c], "resolves")
    IN /\ Len(resolves) = Len(argResolvers)
       /\ \A n \in 1..Len(resolves) :
            /\ resolves[n].from = argResolvers[n].path
            /\ resolves[n].to = DeclaringType(argResolvers[n].path)

\* The data-source edges of a result: the calls edges to a DB: or API: target.
DataSourceEdges(connections) ==
  LET keep(e) == e.type = "calls" /\ e.to # << >> /\ Head(e.to) \in { "DB:", "API:" }
  IN SelectSeq(connections, keep)

\* The dependency edges of a result: the other calls edges.
DependencyEdges(connections) ==
  LET keep(e) == e.type = "calls" /\ (e.to = << >> \/ Head(e.to) \notin { "DB:", "API:" })
  IN SelectSeq(connections, keep)

\* The resolvers of a list classified database or api, and those of them
\* that carry the detail of their source type.
SourcedResolvers(resolvers) ==
  LET keep(r) == r.sourceType \in { << "database" >>, << "api" >> }
  IN SelectSeq(resolvers, keep)

DetailedResolvers(resolvers) ==
  LET keep(r) == \/ r.sourceType = << "database" >> /\ r.databaseInfo # None
                 \/ r.sourceType = << "api" >> /\ r.apiInfo # None
  IN SelectSeq(resolvers, keep)

\* The target the data-source edge rule names for a resolver.
SourceTarget(r) ==
  IF r.sourceType = << "database" >>
  THEN << "DB:" >> \o (IF r.databaseInfo = None \/ r.databaseInfo[1].model = None
                       THEN << "unknown" >>
                       ELSE r.databaseInfo[1].model)
  ELSE << "API:" >> \o (IF r.apiInfo = None THEN << >>
                        ELSE IF r.apiInfo[1].endpoint # None THEN r.apiInfo[1].endpoint
                        ELSE r.apiInfo[1].type)

\* C11 as stated: every resolver with sourceType database or api, its detail
\* present or not, yields exactly one data-source calls edge, to DB:<model>
\* (unknown without a model) or API:<endpoint>, API:<protocol> without one.
C11_AsStated ==
  \A c \in 1..Len(returned) :
    LET edges == DataSourceEdges(returned[c])
        sourced == SourcedResolvers(argResolvers)
    IN /\ Len(edges) = Len(sourced)
       /\ \A k \in 1..Len(edges) : edges[k].to = SourceTarget(sourced[k])

\* C11: every resolver with sourceType database that carries databaseInfo
\* yields exactly one calls edge to DB:<model>, DB:unknown without a model;
\* every resolver with sourceType api that carries apiInfo yields exactly one
\* calls edge to API:<endpoint>, API:<protocol> without an endpoint; a
\* resolver without the detail of its source type yields no data-source edge.
C11_DataSourceEdges ==
  \A c \in 1..Len(returned) :
    LET edges == DataSourceEdges(returned[c])
        detailed == DetailedResolvers(argResolvers)
    IN /\ Len(edges) = Len(detailed)
       /\ \A k \in 1..Len(edges) : edges[k].to = SourceTarget(detailed[k])

\* A call has returned for a database resolver whose detail names no model,
\* with its edge to DB:unknown.
C11_Witness ==
  /\ Len(returned) >= 1
  /\ Len(argResolvers) = 1
  /\ argResolvers[1].sourceType = << "database" >>
  /\ argResolvers[1].databaseInfo # None
  /\ argResolvers[1].databaseInfo[1].model = None
  /\ Len(DataSourceEdges(returned[1])) = 1
  /\ DataSourceEdges(returned[1])[1].to = << "DB:", "unknown" >>

\* The dependency entries of a resolver: none when the list is absent.
DependenciesOf(r) == IF r.dependencies = None THEN << >> ELSE r.dependencies[1]

\* C12: for every resolver and every entry of its dependencies one calls
\* edge goes to that dependency string unchanged, and a resolver whose
\* dependencies are absent or empty yields none: the dependency edges are,
\* in order, the dependency entries of the resolvers.
C12_DependencyEdges ==
  \A c \in 1..Len(returned) :
    LET edges == DependencyEdges(returned[c])
        expected == flatten([ n \in 1..Len(argResolvers) |-> DependenciesOf(argResolvers[n]) ])
    IN /\ Len(edges) = Len(expected)
       /\ \A k \in 1..Len(edges) : edges[k].to = expected[k]

\* A call has returned for a resolver that lists two dependencies, with an
\* edge to each.
C12_Witness ==
  /\ Len(returned) >= 1
  /\ Len(argResolvers) = 1
  /\ Len(DependenciesOf(argResolvers[1])) = 2
  /\ Len(DependencyEdges(returned[1])) = 2
  /\ DependencyEdges(returned[1])[1].to = DependenciesOf(argResolvers[1])[1]
  /\ DependencyEdges(returned[1])[2].to = DependenciesOf(argResolvers[1])[2]

\* The number of edges emitted on behalf of one resolver.
EdgeCount(r) == 1 + Len(DetailedResolvers(<< r >>)) + Len(DependenciesOf(r))

\* C19: every resolves or calls edge emitted on behalf of a resolver has
\* from equal to that resolver's path, for the file scan's ResolverInfos,
\* dotted and undotted, as for the others.
C19_EdgesFromPath ==
  \A c \in 1..Len(returned) :
    LET edges == SelectSeq(returned[c], LAMBDA e : e.type # "references")
        expected ==
          flatten([ n \in 1..Len(argResolvers) |->
                      [ k \in 1..EdgeCount(argResolvers[n]) |-> argResolvers[n].path ] ])
    IN /\ Len(edges) = Len(expected)
       /\ \A k \in 1..Len(edges) : edges[k].from = expected[k]

\* The number of fields of the nodes whose type is no built-in scalar.
ReferenceCount(nodes) ==
  Len(flatten([ n \in 1..Len(nodes) |-> ReferencedTypes(nodes[n]) ]))

\* The number of dependency entries of the resolvers.
DependencyCount(resolvers) ==
  Len(flatten([ n \in 1..Len(resolvers) |-> DependenciesOf(resolvers[n]) ]))

\* The detail objects of a resolver are those of its source type: databaseInfo
\* is present iff it is classified database, apiInfo iff it is classified api.
DetailMatchesSource(r) ==
  /\ r.databaseInfo # None <=> r.sourceType = << "database" >>
  /\ r.apiInfo # None <=> r.sourceType = << "api" >>

ResolverEdgeOrder(r) ==
  << << "resolves", r.typeName >> >>
    \o (IF DetailedResolvers(<< r >>) # << >> THEN << << "calls", SourceTarget(r) >> >>
        ELSE << >>)
    \o [ k \in 1..Len(DependenciesOf(r)) |-> << "calls", DependenciesOf(r)[k] >> ]

\* The kind and the target of the edges the rules name for one node, in
\* field order.
NodeEdgeOrder(node) ==
  [ k \in 1..Len(ReferencedTypes(node)) |-> << "references", ReferencedTypes(node)[k] >> ]

\* C21: in every returned sequence the edges of the resolvers come before
\* the edges of the schema nodes; the resolvers' edges follow resolver input
\* order and, for one resolver, the order resolves, data source,
\* dependencies in list order; the nodes' edges follow node input order and
\* field order.
C21_EdgeOrder ==
  \A c \in 1..Len(returned) :
    LET expected ==
          flatten([ n \in 1..Len(argResolvers) |-> ResolverEdgeOrder(argResolvers[n]) ])
            \o flatten([ n \in 1..Len(argNodes) |-> NodeEdgeOrder(argNodes[n]) ])
    IN /\ Len(returned[c]) = Len(expected)
       /\ \A k \in 1..Len(expected) :
            /\ returned[c][k].type = expected[k][1]
            /\ returned[c][k].to = expected[k][2]

\* A call has returned for two nodes, with two references edges and one, and
\* two resolvers, the first with two dependencies and the second with a data
\* source: resolves, calls, calls, resolves, calls, references, references.
C21_Witness ==
  /\ Len(returned) >= 1
  /\ argNodes = SampleNodePair
  /\ Len(argResolvers) = 2
  /\ Len(DependenciesOf(argResolvers[1])) = 2
  /\ argResolvers[2].sourceType = << "database" >>
  /\ [ k \in 1..Len(returned[1]) |-> returned[1][k].type ]
       = << "resolves", "calls", "calls", "resolves", "calls",
            "references", "references", "references" >>
  /\ returned[1][5].to = << "DB:", "user" >>
  /\ returned[1][6].from = << "Post" >>
  /\ returned[1][8].from = << "User" >>

\* The resolvers under study come from the classifier's two entry points.
ClassifierResolvers ==
  \A n \in 1..Len(argResolvers) : argResolvers[n] \notin TypedInfos

\* The ids of the nodes prepared for the graph.
NodeIds == { visNodes[1][n].id : n \in 1..Len(visNodes[1]) }

\* C30: with groupBySource enabled, the source and the target of every edge
\* prepared for a result built from analyze() nodes and classifier resolvers
\* are ids of nodes prepared for the same result.
C30_NoDanglingEdge ==
  (visOptions # None /\ visOptions[1].groupBySource /\ ClassifierResolvers) =>
    \A n \in 1..Len(visEdges[1]) :
      visEdges[1][n].source \in NodeIds /\ visEdges[1][n].target \in NodeIds

\* ------------------------------------------------ enrichment merge policy

\* The set union of two dependency lists: the first, then the entries of the
\* second it lacks.
RECURSIVE unionLists(_, _)
unionLists(a, b) ==
  IF b = << >> THEN a
  ELSE IF arrayIncludes(a, Head(b)) THEN unionLists(a, Tail(b))
  ELSE unionLists(Append(a, Head(b)), Tail(b))

\* The merge of one resolver with the suggestion offered for its path, were
\* the suggestion's classification adopted whatever the static one is.
mergeResolverAlways(resolver, insight) ==
  [ resolver EXCEPT
      !.sourceType = insight.sourceType,
      !.databaseInfo = insight.databaseInfo,
      !.apiInfo = insight.apiInfo,
      !.dependencies =
        Some(unionLists(IF @ = None THEN << >> ELSE @[1], insight.dependencies)) ]

\* The merge of one resolver with the suggestion offered for its path: a
\* known classification stays, an unknown one adopts the suggestion's
\* classification and detail; the dependencies are united.
mergeResolver(resolver, insight) ==
  [ resolver EXCEPT
      !.sourceType =
        IF resolver.sourceType # << "unknown" >> THEN @ ELSE insight.sourceType,
      !.databaseInfo =
        IF resolver.sourceType # << "unknown" >> THEN @ ELSE insight.databaseInfo,
      !.apiInfo =
        IF resolver.sourceType # << "unknown" >> THEN @ ELSE insight.apiInfo,
      !.dependencies =
        Some(unionLists(IF @ = None THEN << >> ELSE @[1], insight.dependencies)) ]

\* The merged resolver collection: the static one when the payload is not
\* well-formed (None), else each resolver merged with the first insight
\* keyed by its path, if there is one.
mergeResolvers(resolvers, insights) ==
  IF insights = None THEN resolvers
  ELSE [ n \in 1..Len(resolvers) |->
           LET I == { i \in 1..Len(insights[1]) :
                        insights[1][i].path = resolvers[n].path }
           IN IF I = {} THEN resolvers[n]
              ELSE mergeResolver(resolvers[n], insights[1][Min(I)]) ]

\* ------------------------------------------- enrichment merge (inputs)

\* What the external source may suggest for a path.
Suggestions ==
  { [ sourceType |-> << "api" >>, databaseInfo |-> None,
      apiInfo |-> Some([ type |-> << "rest" >>, method |-> << "GET" >>,
                         endpoint |-> << "/", "users" >> ]),
      dependencies |-> << >> ],
    [ sourceType |-> << "database" >>,
      databaseInfo |-> Some([ type |-> << "sequelize" >>, operation |-> None,
                              model |-> << "post" >> ]),
      apiInfo |-> None,
      dependencies |-> << << "Query", ".", "users" >> >> ],
    [ sourceType |-> << "computed" >>, databaseInfo |-> None, apiInfo |-> None,
      dependencies |-> << >> ],
    [ sourceType |-> << "unknown" >>, databaseInfo |-> None, apiInfo |-> None,
      dependencies |-> << << "User", ".", "post" >> >> ] }

\* resolverInsights payloads: not well-formed, empty, or one insight.
Payloads ==
  { None, Some(<< >>) }
    \cup { Some(<< [ path |-> p, sourceType |-> g.sourceType,
                     databaseInfo |-> g.databaseInfo, apiInfo |-> g.apiInfo,
                     dependencies |-> g.dependencies ] >>) :
             p \in ScanPaths \cup { << "User", ".", "post" >> }, g \in Suggestions }

\* -------------------------------------------- enrichment merge: behaviour

InitMerge ==
  /\ staticResolvers \in ResolverLists(MaxResolvers)
  /\ payload \in Payloads
  /\ merged = None
  /\ ClassifierIdle /\ SchemaIdle /\ SynthesizerIdle /\ ScanIdle
  /\ RunIdle /\ LiteralIdle /\ VisualizerIdle

Merge ==
  /\ merged = None
  /\ merged' = Some(mergeResolvers(staticResolvers, payload))
  /\ UNCHANGED << staticResolvers, payload, classifierVars, schemaVars,
                  synthesizerVars, scanVars,
                  runVars, literalVars, visualizerVars >>

NextMerge == Merge

SpecMerge == InitMerge /\ [][NextMerge]_vars

\* ------------------------------------------------ enrichment merge: claims

\* C5: every resolver whose static sourceType is not unknown has the same
\* sourceType and the same detail after the merge, whatever the payload
\* suggests for its path; only a resolver that was unknown changes them.
C5_KnownClassificationKept ==
  merged # None =>
    /\ Len(merged[1]) = Len(staticResolvers)
    /\ \A n \in 1..Len(staticResolvers) :
         LET before == staticResolvers[n]
             after == merged[1][n]
         IN /\ after.path = before.path
            /\ before.sourceType # << "unknown" >> =>
                 /\ after.sourceType = before.sourceType
                 /\ after.databaseInfo = before.databaseInfo
                 /\ after.apiInfo = before.apiInfo

\* A resolver classified database, with a suggestion of api for its path,
\* has been merged and is still database.
C5_Witness ==
  /\ merged # None
  /\ payload # None
  /\ Len(staticResolvers) >= 1
  /\ staticResolvers[1].sourceType = << "database" >>
  /\ Len(payload[1]) = 1
  /\ payload[1][1].path = staticResolvers[1].path
  /\ payload[1][1].sourceType = << "api" >>
  /\ merged[1][1].sourceType = << "database" >>
  /\ merged[1][1].apiInfo = None

\* ------------------------------------------------------------ analysis run

\* addFilesFromDirectory where readdirSync throws on an unreadable
\* directory: the files pushed so far and whether the call threw.
RECURSIVE addFilesFromDirectoryOrThrow(_, _, _, _)
addFilesFromDirectoryOrThrow(dirPath, entries, load, unreadable) ==
  IF load.threw \/ entries = << >> THEN load
  ELSE LET filePath == join(dirPath, Head(entries))
           added ==
             IF isDirectory(filePath) THEN
               IF filePath \in unreadable THEN [ load EXCEPT !.threw = TRUE ]
               ELSE addFilesFromDirectoryOrThrow(filePath, readdirSync(filePath), load,
                                                 unreadable)
             ELSE IF isSourceName(Head(entries))
               THEN [ load EXCEPT !.files = Append(@, filePath) ]
             ELSE load
       IN addFilesFromDirectoryOrThrow(dirPath, Tail(entries), added, unreadable)

\* loadResolverFiles on that file tree: nothing in it catches.
RECURSIVE loadResolverFilesOrThrow(_, _, _)
loadResolverFilesOrThrow(resolverPaths, load, unreadable) ==
  IF load.threw \/ resolverPaths = << >> THEN load
  ELSE LET p == Head(resolverPaths)
           added ==
             IF ~ existsSync(p) THEN load
             ELSE IF isDirectory(p) THEN
               IF p \in unreadable THEN [ load EXCEPT !.threw = TRUE ]
               ELSE addFilesFromDirectoryOrThrow(p, readdirSync(p), load, unreadable)
             ELSE IF isFile(p) /\ isSourceName(p)
               THEN [ load EXCEPT !.files = Append(@, p) ]
             ELSE load
       IN loadResolverFilesOrThrow(Tail(resolverPaths), added, unreadable)

\* The courses of the files in a run: a.ts and c.ts are analysed to their
\* end, b.js in any of its ways.
RunFaults ==
  { [ f \in SourceFiles |->
        IF f = FileB THEN b
        ELSE [ kind |-> "none", pushed |-> Len(FileCandidates(f)) ] ] :
      b \in FileFaults(FileB) }

InitRun ==
  /\ ScanStart(RunFaults)
  /\ SchemaIdle
  /\ runPc = "start"
  /\ runError = None
  /\ unreadableDirs \in SUBSET { SrcDir, SubDir }
  /\ ClassifierIdle /\ SynthesizerIdle /\ MergeIdle /\ LiteralIdle /\ VisualizerIdle

\* await schemaAnalyzer.loadSchema(options.schema), the document accepted.
RunLoadSchema ==
  /\ runPc = "start"
  /\ \E s \in SampleSchemas : schema' = Some(s)
  /\ thrown' = None
  /\ lastCall' = "loadSchema"
  /\ parseError' = None
  /\ loaded' = TRUE
  /\ runPc' = "schemaLoaded"
  /\ UNCHANGED << schemaNodes, typeDependencies, runError, unreadableDirs,
                  classifierVars, synthesizerVars, mergeVars, scanVars, literalVars,
                  visualizerVars >>

\* await schemaAnalyzer.loadSchema(options.schema), the document rejected:
\* the catch of runAnalysis rethrows.
RunLoadSchemaFails ==
  /\ runPc = "start"
  /\ \E d \in Diagnostics :
       /\ parseError' = Some(d)
       /\ thrown' = Some(<< "Failed to load GraphQL schema: " >> \o d)
  /\ lastCall' = "loadSchema"
  /\ runPc' = "aborted"
  /\ runError' = Some("loadSchema")
  /\ UNCHANGED << schema, schemaNodes, loaded, typeDependencies, unreadableDirs,
                  classifierVars, synthesizerVars, mergeVars, scanVars, literalVars,
                  visualizerVars >>

\* schemaAnalyzer.analyze()
RunAnalyzeSchema ==
  /\ runPc = "schemaLoaded"
  /\ IF schema = None
     THEN /\ thrown' = Some(NotLoadedError)
          /\ runPc' = "aborted"
          /\ runError' = Some("analyze")
          /\ UNCHANGED schemaNodes
     ELSE /\ thrown' = None
          /\ schemaNodes' = Some(analyze(schema[1]))
          /\ runPc' = "schemaAnalyzed"
          /\ UNCHANGED runError
  /\ lastCall' = "analyze"
  /\ UNCHANGED << schema, parseError, loaded, typeDependencies, unreadableDirs,
                  classifierVars, synthesizerVars, mergeVars, scanVars, literalVars,
                  visualizerVars >>

\* await resolverAnalyzer.loadResolverFiles(options.resolvers)
RunLoadResolverFiles ==
  /\ runPc = "schemaAnalyzed"
  /\ \E resolverPaths \in PathLists(MaxPaths) :
       \E load \in { loadResolverFilesOrThrow(resolverPaths,
                                              [ files |-> << >>, threw |-> FALSE ],
                                              unreadableDirs) } :
         /\ resolverFiles' = load.files
         /\ lastPaths' = Some(resolverPaths)
         /\ IF load.threw
            THEN runPc' = "aborted" /\ runError' = Some("loadResolverFiles")
            ELSE runPc' = "filesLoaded" /\ UNCHANGED runError
  /\ UNCHANGED << faults, resolverAnalysisResults, scanReturned, errorLog, arrays,
                  resultsRef, scanCalls, unreadableDirs, classifierVars, schemaVars,
                  synthesizerVars, mergeVars, literalVars, visualizerVars >>

\* await resolverAnalyzer.analyzeResolvers()
RunAnalyzeResolvers ==
  /\ runPc = "filesLoaded"
  /\ AnalyzeResolversFrom(<< >>)
  /\ runPc' = "done"
  /\ UNCHANGED << faults, resolverFiles, lastPaths, runError, unreadableDirs,
                  classifierVars, schemaVars, synthesizerVars, mergeVars, literalVars,
                  visualizerVars >>

NextRun ==
  \/ RunLoadSchema
  \/ RunLoadSchemaFails
  \/ RunAnalyzeSchema
  \/ RunLoadResolverFiles
  \/ RunAnalyzeResolvers

SpecRun == InitRun /\ [][NextRun]_vars

\* ------------------------------------------------------ analysis run: claims

\* C23: a run is aborted only by a failure on the primary schema, in
\* loadSchema or in analyze; no resolver path, file or directory aborts it.
C23_OnlySchemaFailuresAbort ==
  runPc = "aborted" => runError \in { Some("loadSchema"), Some("analyze") }

\* --------------------------------------------------- resolver-map detection

\* String.prototype.toLowerCase on the atoms of a declared name.
toLowerCase(text) ==
  [ i \in 1..Len(text) |->
      CASE text[i] = "Query" -> "query"
        [] text[i] \in { "Resolver", "RESOLVER" } -> "resolver"
        [] text[i] = "S" -> "s"
        [] OTHER -> text[i] ]

\* The ResolverInfos analyzeObjectLiteral pushes for an object literal.
analyzeObjectLiteral(node) ==
  LET parent == node.parent
      named == parent.nameKind = "Identifier"
      resolverTypeName ==
        IF parent.kind \in { "PropertyAssignment", "VariableDeclaration" } /\ named
        THEN parent.name ELSE << "unknown" >>
      isLikelyResolverMap ==
        IF parent.kind = "PropertyAssignment" THEN named
        ELSE IF parent.kind = "VariableDeclaration"
          THEN named /\ includes(toLowerCase(resolverTypeName), << "resolver" >>)
        ELSE FALSE
      pushed(property) ==
        IF /\ property.kind = "PropertyAssignment"
           /\ property.nameKind = "Identifier"
           /\ property.value.kind \in { "FunctionExpression", "ArrowFunction", "Identifier" }
        THEN << analyzeResolverImplementation(
                  property.value.text,
                  resolverTypeName \o << "." >> \o property.name) >>
        ELSE << >>
  IN IF isLikelyResolverMap
     THEN flatten([ k \in 1..Len(node.properties) |-> pushed(node.properties[k]) ])
     ELSE << >>

\* ------------------------------------------ resolver-map detection (inputs)

\* What an object literal is the child of: a property assignment with an
\* identifier or a string-literal key, a variable declaration with an
\* identifier or a binding pattern, or an export.
LiteralParents ==
  { [ kind |-> "PropertyAssignment", nameKind |-> k, name |-> n ] :
      k \in { "Identifier", "StringLiteral" },
      n \in { << "Query" >>, << "config" >> } }
    \cup { [ kind |-> "VariableDeclaration", nameKind |-> "Identifier", name |-> n ] :
             n \in { << "resolver", "s" >>, << "user", "Resolver", "s" >>,
                     << "RESOLVER", "S" >>, << "Query" >>, << "config" >> } }
    \cup { [ kind |-> "VariableDeclaration", nameKind |-> "ObjectBindingPattern",
             name |-> None ],
           [ kind |-> "ExportAssignment", nameKind |-> "none", name |-> None ] }

\* The entries of an object literal: for each, the kind of the element, of
\* its name and of its value, the value's text, and whether the value is a
\* function when the program runs.
LiteralProperties ==
  { [ kind |-> "PropertyAssignment", nameKind |-> "Identifier", name |-> << "users" >>,
      value |-> [ kind |-> "ArrowFunction", denotes |-> "function",
                  text |-> << "prisma", ".", "user", ".", "find", "Many", "(", ")" >> ] ],
    [ kind |-> "PropertyAssignment", nameKind |-> "Identifier", name |-> << "posts" >>,
      value |-> [ kind |-> "FunctionExpression", denotes |-> "function",
                  text |-> << "fetch", "(", "'", "/", "y", "'", ")" >> ] ],
    [ kind |-> "PropertyAssignment", nameKind |-> "Identifier", name |-> << "user" >>,
      value |-> [ kind |-> "Identifier", denotes |-> "function",
                  text |-> << "get", "User" >> ] ],
    [ kind |-> "PropertyAssignment", nameKind |-> "Identifier", name |-> << "count" >>,
      value |-> [ kind |-> "Identifier", denotes |-> "value", text |-> << "x" >> ] ],
    [ kind |-> "PropertyAssignment", nameKind |-> "StringLiteral", name |-> << "users" >>,
      value |-> [ kind |-> "ArrowFunction", denotes |-> "function",
                  text |-> << "return", " ", "x" >> ] ],
    [ kind |-> "PropertyAssignment", nameKind |-> "Identifier", name |-> << "id" >>,
      value |-> [ kind |-> "NumericLiteral", denotes |-> "value", text |-> << "1" >> ] ],
    [ kind |-> "PropertyAssignment", nameKind |-> "Identifier", name |-> << "Query" >>,
      value |-> [ kind |-> "ObjectLiteralExpression", denotes |-> "value",
                  text |-> << "{", "}" >> ] ],
    [ kind |-> "MethodDeclaration", nameKind |-> "Identifier", name |-> << "users" >>,
      value |-> [ kind |-> "Block", denotes |-> "function",
                  text |-> << "return", " ", "x", ".", "y" >> ] ] }

\* Lists of at most n entries.
RECURSIVE PropertyLists(_)
PropertyLists(n) ==
  IF n = 0 THEN { << >> }
  ELSE LET shorter == PropertyLists(n - 1)
       IN shorter \cup { Append(l, q) : l \in shorter, q \in LiteralProperties }

ObjectLiterals ==
  { [ parent |-> p, properties |-> l ] :
      p \in LiteralParents, l \in PropertyLists(MaxProps) }

\* ----------------------------------------- resolver-map detection: behaviour

InitLiteral ==
  /\ \E node \in ObjectLiterals : objectLiteral = Some(node)
  /\ literalCandidates = None
  /\ ClassifierIdle /\ SchemaIdle /\ SynthesizerIdle /\ MergeIdle /\ ScanIdle
  /\ RunIdle /\ VisualizerIdle

\* walkNode meets the object literal and calls analyzeObjectLiteral.
AnalyzeObjectLiteral ==
  /\ literalCandidates = None
  /\ literalCandidates' = Some(analyzeObjectLiteral(objectLiteral[1]))
  /\ UNCHANGED << objectLiteral, classifierVars, schemaVars, synthesizerVars, mergeVars,
                  scanVars, runVars, visualizerVars >>

NextLiteral == AnalyzeObjectLiteral

SpecLiteral == InitLiteral /\ [][NextLiteral]_vars

\* -------------------------------------------- resolver-map detection: claims

\* The declared name contains "resolver", whatever the case of its letters.
NamesResolver(name) ==
  \E i \in 1..Len(name) : name[i] \in { "resolver", "Resolver", "RESOLVER" }

\* The object literal is the value of a property with an identifier key, or
\* is bound to a variable whose name contains "resolver".
IsResolverMap(node) ==
  \/ node.parent.kind = "PropertyAssignment" /\ node.parent.nameKind = "Identifier"
  \/ /\ node.parent.kind = "VariableDeclaration"
     /\ node.parent.nameKind = "Identifier"
     /\ NamesResolver(node.parent.name)

\* The paths of the candidates of a resolver map: one for every entry keyed
\* by an identifier whose value is a function.
CandidatePaths(node) ==
  flatten([ k \in 1..Len(node.properties) |->
              IF /\ node.properties[k].nameKind = "Identifier"
                 /\ node.properties[k].value.denotes = "function"
              THEN << node.parent.name \o << "." >> \o node.properties[k].name >>
              ELSE << >> ])

\* C26: an object literal yields candidates iff it is a resolver map, and
\* then exactly one per identifier-keyed entry whose value is a function,
\* with the path <type name>.<entry key>, and none for any other entry.
C26_MapCandidates ==
  literalCandidates # None =>
    [ n \in 1..Len(literalCandidates[1]) |-> literalCandidates[1][n].path ]
      = (IF IsResolverMap(objectLiteral[1])
         THEN CandidatePaths(objectLiteral[1]) ELSE << >>)

====
